---- MODULE Spec2Model ----
(***************************************************************************)
(* Execution arbiter of the dual-strategy system (AAFR phase detector and  *)
(* AJR gap detector), with the trade-signal schema and the unified risk    *)
(* manager it calls.                                                       *)
(*                                                                         *)
(* Prices are integers counted in ticks (tick_size = 1 tick), money is in  *)
(* whole dollars, the clock is in whole seconds since midnight.            *)
(* R-multiples are kept in hundredths (round(r, 2) * 100) and the percent  *)
(* risk in thousandths of a percent (round(pct, 3) * 1000).                *)
(*                                                                         *)
(* process_signal is modelled in three steps per caller: Call (count the   *)
(* signal and arrive at the instrument's asyncio.Lock), Resume (a queued   *)
(* caller takes the released lock) and Decide (_process_with_lock and the  *)
(* release at the end of the async-with block).  The event loop can only   *)
(* switch tasks at the lock acquisition, so the schedules of the program   *)
(* are among the interleavings of these steps.                             *)
(***************************************************************************)
EXTENDS Integers, Sequences, FiniteSets, TLC

VARIABLES
    now,              \* datetime.now(), seconds since midnight
    enabled,          \* arbiter config 'enabled'
    allow_merging,    \* arbiter config 'allow_signal_merging'
    symbols,          \* the symbols given to DualStrategySystem.start
    strategies,       \* the strategies enabled in config['strategies']
    open_positions,   \* symbol -> position_info (None when absent)
    pending_signals,  \* dict signal_id -> signal, in insertion order
    locked,           \* position_locks[symbol]._locked
    waiters,          \* position_locks[symbol]._waiters (FIFO of callers)
    total_signals,
    accepted_signals,
    rejected_signals,
    merged_signals,
    daily_loss,       \* risk manager daily loss
    pc,               \* position of each caller inside process_signal
    arg,              \* the signal each caller passed to process_signal
    ticket,           \* value of total_signals when the caller arrived
    result,           \* what the last completed process_signal call produced
    call,             \* arguments of the function call under examination
    backtester,       \* fields of the Backtester object (None before construction)
    calculator,       \* fields of the CVDCalculator object (None when not under examination)
    tracker,          \* the AJRStrategy object with its GapTracker (None likewise)
    system,           \* the DualStrategySystem and its monitoring tasks (None likewise)
    ret               \* what that call returned or raised (None before it ran)

vars == <<now, enabled, allow_merging, symbols, strategies, open_positions,
          pending_signals, locked, waiters, total_signals, accepted_signals, rejected_signals,
          merged_signals, daily_loss, pc, arg, ticket, result, call, ret, backtester,
          calculator, tracker, system>>

\* a direct call of a function of the components, outside the arbiter
components == <<calculator, tracker, system>>

direct == <<call, ret, backtester, components>>

config == <<enabled, allow_merging, symbols, strategies>>

arbiterState == <<open_positions, pending_signals, accepted_signals,
                  rejected_signals, merged_signals>>

----------------------------------------------------------------------------
(* Bounds of the model *)

MaxCalls == 2
MaxDailyLoss == 2250

(* Program constants *)

PendingWindowSeconds == 5
DefaultMaxLossUsd == 750
MergedMaxLossUsd == 750
MinRMultiple100 == 150
MergeMultiplierNum == 3
MergeMultiplierDen == 2
max_positions_per_symbol == 1
max_risk_usd == 750
daily_loss_limit == 1500
account_size == 150000

Instruments == {"NQ", "GC"}
ALLOWED_INSTRUMENTS == {"NQ", "ES", "GC", "CL"}
Strategies == {"AAFR", "AJR"}
Tasks == {1, 2}

\* values of microsecond % 1000 in a signal id
Counters == {0}

None == [none |-> TRUE]

\* no component object is under examination
ComponentsIdle == calculator = None /\ tracker = None /\ system = None

Abs(x) == IF x < 0 THEN -x ELSE x
Min(a, b) == IF a <= b THEN a ELSE b
Max(a, b) == IF a >= b THEN a ELSE b

Range(s) == {s[k] : k \in 1..Len(s)}

SeqMax(s) == CHOOSE x \in Range(s) : \A y \in Range(s) : y <= x

RECURSIVE SortedSeq(_)
SortedSeq(S) ==
    IF S = {} THEN <<>>
    ELSE LET m == CHOOSE x \in S : \A y \in S : x <= y
         IN <<m>> \o SortedSeq(S \ {m})

----------------------------------------------------------------------------
(* shared/signal_schema.py *)

\* signal_id: "<second>Z-<instrument>-<microsecond % 1000>"
_generate_signal_id(instrument, t, counter) == <<t, instrument, counter>>

\* str.upper on the spellings of a direction
upper(direction) ==
    CASE direction = "buy" -> "BUY"
      [] direction = "sell" -> "SELL"
      [] OTHER -> direction

\* TradeSignal.__init__ before validation
TradeSignal(strategy_id, instrument, direction, entry_price, stop_price, take_profit, max_loss_usd, t, counter) ==
    [strategy_id |-> strategy_id,
     signal_id   |-> _generate_signal_id(instrument, t, counter),
     instrument  |-> instrument,
     direction   |-> upper(direction),
     entry_price |-> entry_price,
     stop_price  |-> stop_price,
     take_profit |-> take_profit,
     max_loss_usd |-> max_loss_usd,
     timestamp   |-> t]

_validate_StopOnly(s) ==
    IF s.strategy_id \notin {"AAFR", "AJR"} THEN "Invalid strategy_id"
    ELSE IF s.instrument \notin {"NQ", "ES", "GC", "CL"} THEN "Invalid instrument"
    ELSE IF s.direction \notin {"BUY", "SELL"} THEN "Invalid direction"
    ELSE IF s.entry_price <= 0 THEN "Entry price must be positive"
    ELSE IF s.stop_price <= 0 THEN "Stop price must be positive"
    ELSE IF s.direction = "BUY" /\ s.stop_price >= s.entry_price
         THEN "BUY stop must be below entry"
    ELSE IF s.direction = "SELL" /\ s.stop_price <= s.entry_price
         THEN "SELL stop must be above entry"
    ELSE IF Len(s.take_profit) = 0 THEN "At least one take profit level required"
    ELSE "OK"

\* TradeSignal._validate: "OK" or the ValueError it raises
_validate(s) ==
    IF s.strategy_id \notin {"AAFR", "AJR"} THEN "Invalid strategy_id"
    ELSE IF s.instrument \notin {"NQ", "ES", "GC", "CL"} THEN "Invalid instrument"
    ELSE IF s.direction \notin {"BUY", "SELL"} THEN "Invalid direction"
    ELSE IF s.entry_price <= 0 THEN "Entry price must be positive"
    ELSE IF s.stop_price <= 0 THEN "Stop price must be positive"
    ELSE IF s.direction = "BUY" /\ s.stop_price >= s.entry_price
         THEN "BUY stop must be below entry"
    ELSE IF s.direction = "SELL" /\ s.stop_price <= s.entry_price
         THEN "SELL stop must be above entry"
    ELSE IF Len(s.take_profit) = 0 THEN "At least one take profit level required"
    ELSE IF s.direction = "BUY"
            /\ \E k \in 1..Len(s.take_profit) : s.take_profit[k] <= s.entry_price
         THEN "BUY take profits must be above entry"
    ELSE IF s.direction = "SELL"
            /\ \E k \in 1..Len(s.take_profit) : s.take_profit[k] >= s.entry_price
         THEN "SELL take profits must be below entry"
    ELSE "OK"

calculate_stop_distance(s) == Abs(s.entry_price - s.stop_price)

\* round(profit_distance / stop_distance, 2), in hundredths
calculate_risk_reward(s) ==
    LET sd == calculate_stop_distance(s)
    IN  [k \in 1..Len(s.take_profit) |->
            IF sd > 0
            THEN (200 * Abs(s.take_profit[k] - s.entry_price) + sd) \div (2 * sd)
            ELSE 0]

----------------------------------------------------------------------------
(* shared/unified_risk_manager.py *)

\* config['instruments'][symbol]['tick_value'], dollars per tick
tick_value(instrument) == IF instrument = "NQ" THEN 5 ELSE 10

validate_instrument(instrument) ==
    IF instrument \notin ALLOWED_INSTRUMENTS THEN "not allowed"
    ELSE IF instrument \notin Instruments THEN "not configured"
    ELSE "OK"

calculate_position_size_NoMinimum(s) ==
    LET stop_distance_ticks == Abs(s.entry_price - s.stop_price)
        dollar_per_contract == stop_distance_ticks * tick_value(s.instrument)
        position_size == s.max_loss_usd \div dollar_per_contract
        actual_risk == position_size * dollar_per_contract
    IN  IF s.instrument \notin Instruments
        THEN [position_size |-> 0, error |-> "Unknown instrument"]
        ELSE IF dollar_per_contract <= 0
        THEN [position_size |-> 0, error |-> "Invalid stop distance"]
        ELSE [position_size |-> position_size,
              error |-> "",
              instrument |-> s.instrument,
              tick_value |-> tick_value(s.instrument),
              stop_distance_ticks |-> stop_distance_ticks,
              dollar_per_contract |-> dollar_per_contract,
              actual_risk_usd |-> actual_risk,
              actual_risk_pct |->
                  (2 * actual_risk * 100000 + account_size) \div (2 * account_size),
              r_multiples |-> calculate_risk_reward(s)]

calculate_position_size(s) ==
    LET stop_distance_ticks == Abs(s.entry_price - s.stop_price)
        dollar_per_contract == stop_distance_ticks * tick_value(s.instrument)
        position_size == Max(1, s.max_loss_usd \div dollar_per_contract)
        actual_risk == position_size * dollar_per_contract
    IN  IF s.instrument \notin Instruments
        THEN [position_size |-> 0, error |-> "Unknown instrument"]
        ELSE IF dollar_per_contract <= 0
        THEN [position_size |-> 0, error |-> "Invalid stop distance"]
        ELSE [position_size |-> position_size,
              error |-> "",
              instrument |-> s.instrument,
              tick_value |-> tick_value(s.instrument),
              stop_distance_ticks |-> stop_distance_ticks,
              dollar_per_contract |-> dollar_per_contract,
              actual_risk_usd |-> actual_risk,
              actual_risk_pct |->
                  (2 * actual_risk * 100000 + account_size) \div (2 * account_size),
              r_multiples |-> calculate_risk_reward(s)]

validate_signal_StrictLimit(s, loss) ==
    LET details == calculate_position_size(s)
    IN  IF validate_instrument(s.instrument) # "OK"
        THEN [is_valid |-> FALSE,
              msg |-> IF validate_instrument(s.instrument) = "not allowed"
                      THEN "Instrument not allowed"
                      ELSE "Instrument not configured",
              details |-> None]
        ELSE IF loss > daily_loss_limit
        THEN [is_valid |-> FALSE, msg |-> "Daily loss limit reached", details |-> None]
        ELSE IF details.position_size <= 0
        THEN [is_valid |-> FALSE, msg |-> "Invalid position size", details |-> None]
        ELSE IF 10 * details.actual_risk_usd > 11 * max_risk_usd
        THEN [is_valid |-> FALSE, msg |-> "Risk exceeds max", details |-> details]
        ELSE IF SeqMax(details.r_multiples) < MinRMultiple100
        THEN [is_valid |-> FALSE, msg |-> "R multiple too low", details |-> details]
        ELSE [is_valid |-> TRUE, msg |-> "Signal validated", details |-> details]

\* validate_signal: (is_valid, message, position_details)
validate_signal(s, loss) ==
    LET details == calculate_position_size(s)
    IN  IF validate_instrument(s.instrument) # "OK"
        THEN [is_valid |-> FALSE,
              msg |-> IF validate_instrument(s.instrument) = "not allowed"
                      THEN "Instrument not allowed"
                      ELSE "Instrument not configured",
              details |-> None]
        ELSE IF loss >= daily_loss_limit
        THEN [is_valid |-> FALSE, msg |-> "Daily loss limit reached", details |-> None]
        ELSE IF details.position_size <= 0
        THEN [is_valid |-> FALSE, msg |-> "Invalid position size", details |-> None]
        ELSE IF 10 * details.actual_risk_usd > 11 * max_risk_usd
        THEN [is_valid |-> FALSE, msg |-> "Risk exceeds max", details |-> details]
        ELSE IF SeqMax(details.r_multiples) < MinRMultiple100
        THEN [is_valid |-> FALSE, msg |-> "R multiple too low", details |-> details]
        ELSE [is_valid |-> TRUE, msg |-> "Signal validated", details |-> details]

----------------------------------------------------------------------------
(* shared/execution_arbiter.py *)

hour(t) == (t \div 3600) % 24
minute(t) == (t \div 60) % 60

\* config['arbiter']['continuation_hours'] and ['reversal_windows']
continuation_hours == <<<<9, 30>>, <<15, 30>>>>
reversal_windows == <<<<8, 30>>, <<9, 30>>>>

is_continuation_hours(t) ==
    \E k \in 1..Len(continuation_hours) :
        LET start_h == continuation_hours[k][1]
            start_m == continuation_hours[k][2]
        IN  hour(t) > start_h \/ (hour(t) = start_h /\ minute(t) >= start_m)

is_reversal_window(t) ==
    \E k \in 1..Len(reversal_windows) :
        LET start_h == reversal_windows[k][1]
            start_m == reversal_windows[k][2]
        IN  Abs(hour(t) - start_h) = 0 /\ Abs(minute(t) - start_m) <= 30

\* dict operations on pending_signals (keys are signal ids, insertion order kept)
DictHas(d, id) == \E k \in 1..Len(d) : d[k].signal_id = id

DictPut(d, s) ==
    IF DictHas(d, s.signal_id)
    THEN [k \in 1..Len(d) |-> IF d[k].signal_id = s.signal_id THEN s ELSE d[k]]
    ELSE Append(d, s)

DictDel(d, id) ==
    LET keep(x) == x.signal_id # id
    IN  SelectSeq(d, keep)

_get_pending_signal_Inclusive(instrument) ==
    LET recent == {k \in 1..Len(pending_signals) :
                      /\ pending_signals[k].instrument = instrument
                      /\ now - pending_signals[k].timestamp <= PendingWindowSeconds}
    IN  IF recent = {} THEN None
        ELSE pending_signals[CHOOSE k \in recent : \A j \in recent : k <= j]

\* first pending signal of the instrument created less than 5 seconds ago
_get_pending_signal(instrument) ==
    LET recent == {k \in 1..Len(pending_signals) :
                      /\ pending_signals[k].instrument = instrument
                      /\ now - pending_signals[k].timestamp < PendingWindowSeconds}
    IN  IF recent = {} THEN None
        ELSE pending_signals[CHOOSE k \in recent : \A j \in recent : k <= j]

NoResult == [status |-> "none", accepted |-> FALSE, reason |-> "", details |-> None]

Returned(accepted, reason, details) ==
    [status |-> "returned", accepted |-> accepted, reason |-> reason,
     details |-> details]

Raised(error) ==
    [status |-> "raised", accepted |-> FALSE, reason |-> error, details |-> None]

\* a return (False, reason, None) after self.rejected_signals += 1
Reject(t, reason) ==
    /\ rejected_signals' = rejected_signals + 1
    /\ result' = Returned(FALSE, reason, None)
    /\ UNCHANGED <<open_positions, pending_signals, accepted_signals,
                   merged_signals>>

\* _execute_signal; pend and merged are pending_signals and merged_signals as
\* the caller left them (the deletions and the increment made before the call)
_execute_signal(t, signal, risk_details, pend, merged) ==
    LET v == validate_signal(signal, daily_loss)
        rd == IF risk_details = None THEN v.details ELSE risk_details
    IN  IF risk_details = None /\ ~v.is_valid
        THEN /\ rejected_signals' = rejected_signals + 1
             /\ result' = Returned(FALSE, v.msg, None)
             /\ pending_signals' = pend
             /\ merged_signals' = merged
             /\ UNCHANGED <<open_positions, accepted_signals>>
        ELSE /\ open_positions' =
                    [open_positions EXCEPT ![signal.instrument] =
                        [signal |-> signal,
                         position_size |-> rd.position_size,
                         opened_at |-> now,
                         risk_details |-> rd]]
             /\ pending_signals' = DictPut(pend, signal)
             /\ accepted_signals' = accepted_signals + 1
             /\ merged_signals' = merged
             /\ result' = Returned(TRUE, "Signal accepted and executed",
                             [signal |-> signal,
                              position_size |-> rd.position_size,
                              risk_usd |-> rd.actual_risk_usd,
                              risk_pct |-> rd.actual_risk_pct,
                              r_multiples |-> rd.r_multiples])
             /\ UNCHANGED rejected_signals

_handle_existing_position_Scale(t, signal, existing, risk_details) ==
    _execute_signal(t, signal, risk_details, pending_signals, merged_signals)

_handle_existing_position(t, signal, existing, risk_details) ==
    IF max_positions_per_symbol = 1
    THEN Reject(t, "Position already open")
    ELSE Reject(t, "Multiple positions not currently supported")

\* the TradeSignal that _merge_signals constructs (before validation)
MergedSignal(signal, pending, counter) ==
    TradeSignal(signal.strategy_id,
                signal.instrument,
                signal.direction,
                IF signal.direction = "BUY"
                    THEN Min(signal.entry_price, pending.entry_price)
                    ELSE Max(signal.entry_price, pending.entry_price),
                IF signal.direction = "BUY"
                    THEN Max(signal.stop_price, pending.stop_price)
                    ELSE Min(signal.stop_price, pending.stop_price),
                SortedSeq(Range(signal.take_profit) \cup Range(pending.take_profit)),
                MergedMaxLossUsd, now, counter)

\* int(pending_size * max_merge_multiplier), computed and not used afterwards
merged_size(risk_details) ==
    (risk_details.position_size * MergeMultiplierNum) \div MergeMultiplierDen

_merge_signals(t, signal, pending, risk_details) ==
    \E counter \in Counters :
        LET merged == MergedSignal(signal, pending, counter)
        IN  IF _validate(merged) # "OK"
            THEN \* ValueError leaves process_signal through the async-with block
                 /\ result' = Raised(_validate(merged))
                 /\ UNCHANGED arbiterState
            ELSE _execute_signal(t, merged, risk_details,
                                 DictDel(pending_signals, pending.signal_id),
                                 merged_signals + 1)

\* the strategy _resolve_conflict favours at time t ("" when it favours none)
priority_strategy_Swapped(t) ==
    IF is_continuation_hours(t) THEN "AJR"
    ELSE IF is_reversal_window(t) THEN "AAFR"
    ELSE ""

priority_strategy(t) ==
    IF is_continuation_hours(t) THEN "AAFR"
    ELSE IF is_reversal_window(t) THEN "AJR"
    ELSE ""

_resolve_conflict_CancelFirst(t, signal, pending, risk_details) ==
    IF priority_strategy(now) = ""
    THEN Reject(t, "Conflicting signal, keeping first")
    ELSE     IF signal.strategy_id = priority_strategy(now)
             THEN _execute_signal(t, signal, risk_details,
                                  DictDel(pending_signals, pending.signal_id),
                                  merged_signals)
             ELSE /\ rejected_signals' = rejected_signals + 1
                  /\ result' = Returned(FALSE, "Conflicting signal, pending has priority", None)
                  /\ pending_signals' = DictDel(pending_signals, pending.signal_id)
                  /\ UNCHANGED <<open_positions, accepted_signals, merged_signals>>

_resolve_conflict(t, signal, pending, risk_details) ==
    IF priority_strategy(now) = ""
    THEN Reject(t, "Conflicting signal, keeping first")
    ELSE     IF signal.strategy_id = priority_strategy(now)
             THEN _execute_signal(t, signal, risk_details,
                                  DictDel(pending_signals, pending.signal_id),
                                  merged_signals)
             ELSE Reject(t, "Conflicting signal, pending has priority")

_handle_pending_signal_AlwaysMerge(t, signal, pending, risk_details) ==
    IF signal.direction = pending.direction
    THEN _merge_signals(t, signal, pending, risk_details)
    ELSE _resolve_conflict(t, signal, pending, risk_details)

_handle_pending_signal(t, signal, pending, risk_details) ==
    IF signal.direction = pending.direction
    THEN IF allow_merging
         THEN _merge_signals(t, signal, pending, risk_details)
         ELSE Reject(t, "Signal already pending")
    ELSE _resolve_conflict(t, signal, pending, risk_details)

_process_with_lock(t, signal) ==
    LET v == validate_signal(signal, daily_loss)
        existing_pos == open_positions[signal.instrument]
        pending == _get_pending_signal(signal.instrument)
    IN  IF ~v.is_valid
        THEN Reject(t, "Risk validation failed")
        ELSE IF existing_pos # None
        THEN _handle_existing_position(t, signal, existing_pos, v.details)
        ELSE IF pending # None
        THEN _handle_pending_signal(t, signal, pending, v.details)
        ELSE _execute_signal(t, signal, v.details, pending_signals, merged_signals)

----------------------------------------------------------------------------
(* The callers and the environment *)

\* price levels the phase detector emits: one target at 3R (_check_aafr)
AAFRShapes ==
    {[direction |-> "BUY",  entry_price |-> 100, stop_price |-> 50,
      take_profit |-> <<250>>],
     [direction |-> "SELL", entry_price |-> 300, stop_price |-> 350,
      take_profit |-> <<150>>]}

\* price levels the gap detector emits: targets at 1.5 and 2.5 times the
\* stop distance (AJRStrategy.process_candle)
AJRShapes ==
    {[direction |-> "BUY",  entry_price |-> 90,  stop_price |-> 60,
      take_profit |-> <<135, 165>>],
     [direction |-> "SELL", entry_price |-> 360, stop_price |-> 390,
      take_profit |-> <<315, 285>>]}

Shapes(strategy_id) == IF strategy_id = "AAFR" THEN AAFRShapes ELSE AJRShapes

\* the signals a detector can construct at time t (construction succeeded)
NewSignals(t) ==
    {s \in UNION {{TradeSignal(st, i, sh.direction, sh.entry_price,
                                 sh.stop_price, sh.take_profit,
                                 DefaultMaxLossUsd, t, c) :
                        i \in symbols, sh \in Shapes(st), c \in Counters} :
                    st \in strategies} :
        _validate(s) = "OK"}

\* 07:00:00 (neither window), 08:10:00 and 08:45:00 (reversal), 10:00:00
\* (continuation), 16:00:00 (after the last configured continuation time)
StartTimes == {25200, 29400, 31500, 36000, 57600}

\* seconds after the start at which the clock is observed: the same second,
\* the last second inside the pending window and the first one outside it
ClockOffsets == {0, PendingWindowSeconds - 1, PendingWindowSeconds}

Times == UNION {{st + d : d \in ClockOffsets} : st \in StartTimes}

InitCommon ==
    /\ open_positions = [i \in Instruments |-> None]
    /\ pending_signals = <<>>
    /\ locked = [i \in Instruments |-> FALSE]
    /\ waiters = [i \in Instruments |-> <<>>]
    /\ total_signals = 0
    /\ accepted_signals = 0
    /\ rejected_signals = 0
    /\ merged_signals = 0
    /\ daily_loss = 0
    /\ pc = [t \in Tasks |-> "idle"]
    /\ arg = [t \in Tasks |-> None]
    /\ ticket = [t \in Tasks |-> 0]
    /\ result = NoResult

\* both instruments monitored, one detector, merging on or off, mid-session
Init ==
    /\ now = 36000
    /\ enabled = TRUE
    /\ allow_merging \in BOOLEAN
    /\ symbols = Instruments
    /\ strategies = {"AJR"}
    /\ InitCommon
    /\ call = None
    /\ ret = None
    /\ backtester = None
    /\ ComponentsIdle

\* one instrument, both detectors, merging on or off, mid-session
InitPair ==
    /\ now = 36000
    /\ enabled = TRUE
    /\ allow_merging \in BOOLEAN
    /\ symbols = {"NQ"}
    /\ strategies = Strategies
    /\ InitCommon
    /\ call = None
    /\ ret = None
    /\ backtester = None
    /\ ComponentsIdle

\* one instrument, both detectors, every time of day of StartTimes
InitHours ==
    /\ now \in StartTimes
    /\ enabled = TRUE
    /\ allow_merging = TRUE
    /\ symbols = {"NQ"}
    /\ strategies = Strategies
    /\ InitCommon
    /\ call = None
    /\ ret = None
    /\ backtester = None
    /\ ComponentsIdle

\* the clock advances to a later observed second
Tick ==
    /\ \E t \in Times : t > now /\ t - now <= PendingWindowSeconds /\ now' = t
    /\ UNCHANGED <<direct, config, open_positions, pending_signals,
                   locked, waiters, total_signals, accepted_signals,
                   rejected_signals, merged_signals, daily_loss, pc, arg,
                   ticket, result>>

\* asyncio.Lock.acquire takes the lock at once only when it is not held and
\* nobody is queued for it
LockFree_NoLock(instrument) == TRUE

LockFree(instrument) == ~locked[instrument] /\ waiters[instrument] = <<>>

\* process_signal up to the lock: count the signal, then bypass the arbiter
\* when it is disabled, else take the instrument's lock or queue for it
Enter(t, signal) ==
    /\ pc[t] = "idle"
    /\ \A u \in Tasks : u < t => pc[u] # "idle"
    /\ total_signals < MaxCalls
    /\ total_signals' = total_signals + 1
    /\ IF ~enabled
       THEN /\ _execute_signal(t, signal, None, pending_signals, merged_signals)
            /\ UNCHANGED <<pc, arg, ticket, locked, waiters>>
       ELSE /\ arg' = [arg EXCEPT ![t] = signal]
            /\ ticket' = [ticket EXCEPT ![t] = total_signals + 1]
            /\ result' = result
            /\ IF LockFree(signal.instrument)
               THEN /\ locked' = [locked EXCEPT ![signal.instrument] = TRUE]
                    /\ pc' = [pc EXCEPT ![t] = "locked"]
                    /\ UNCHANGED waiters
               ELSE /\ waiters' = [waiters EXCEPT ![signal.instrument] = Append(@, t)]
                    /\ pc' = [pc EXCEPT ![t] = "waiting"]
                    /\ UNCHANGED locked
            /\ UNCHANGED arbiterState
    /\ UNCHANGED <<direct, now, config, daily_loss>>

\* a detector constructs a signal and submits it
Call(t) == \E signal \in NewSignals(now) : Enter(t, signal)

\* a caller submits again a signal object it was given an acceptance for
Resubmit(t) == \E signal \in Range(pending_signals) : Enter(t, signal)

\* the first queued caller takes the lock after a release
Resume(t) ==
    /\ pc[t] = "waiting"
    /\ ~locked[arg[t].instrument]
    /\ Head(waiters[arg[t].instrument]) = t
    /\ waiters' = [waiters EXCEPT ![arg[t].instrument] = Tail(@)]
    /\ locked' = [locked EXCEPT ![arg[t].instrument] = TRUE]
    /\ pc' = [pc EXCEPT ![t] = "locked"]
    /\ UNCHANGED <<direct, now, config, open_positions, pending_signals,
                   total_signals, accepted_signals, rejected_signals,
                   merged_signals, daily_loss, arg, ticket, result>>

\* the body of the async-with block, then the release of the lock
Decide(t) ==
    /\ pc[t] = "locked"
    /\ _process_with_lock(t, arg[t])
    /\ locked' = [locked EXCEPT ![arg[t].instrument] = FALSE]
    /\ pc' = [pc EXCEPT ![t] = "idle"]
    /\ arg' = [arg EXCEPT ![t] = None]
    /\ ticket' = [ticket EXCEPT ![t] = 0]
    /\ UNCHANGED <<direct, now, config, waiters, total_signals, daily_loss>>

close_position_All(instrument) ==
    /\ open_positions' = [i \in Instruments |-> None]
    /\ UNCHANGED <<direct, now, config, pending_signals, locked, waiters,
                   total_signals, accepted_signals, rejected_signals,
                   merged_signals, daily_loss, pc, arg, ticket, result>>

close_position(instrument) ==
    /\ open_positions' = [open_positions EXCEPT ![instrument] = None]
    /\ UNCHANGED <<direct, now, config, pending_signals, locked, waiters,
                   total_signals, accepted_signals, rejected_signals,
                   merged_signals, daily_loss, pc, arg, ticket, result>>

\* UnifiedRiskManager.update_daily_loss with a loss that reaches the limit
update_daily_loss(loss_amount) ==
    /\ daily_loss + loss_amount <= MaxDailyLoss
    /\ daily_loss' = daily_loss + loss_amount
    /\ UNCHANGED <<direct, now, config, open_positions, pending_signals,
                   locked, waiters, total_signals, accepted_signals,
                   rejected_signals, merged_signals, pc, arg, ticket, result>>

reset_daily ==
    /\ daily_loss' = 0
    /\ UNCHANGED <<direct, now, config, open_positions, pending_signals,
                   locked, waiters, total_signals, accepted_signals,
                   rejected_signals, merged_signals, pc, arg, ticket, result>>

Next ==
    \/ Tick
    \/ \E t \in Tasks : Call(t)
    \/ \E t \in Tasks : Resubmit(t)
    \/ \E t \in Tasks : Resume(t)
    \/ \E t \in Tasks : Decide(t)
    \/ \E i \in Instruments : close_position(i)
    \/ update_daily_loss(daily_loss_limit)
    \/ reset_daily

Spec == Init /\ [][Next]_vars

SpecPair == InitPair /\ [][Next]_vars

SpecHours == InitHours /\ [][Next]_vars

----------------------------------------------------------------------------
(* Vocabulary of the properties *)

\* caller t returns from _process_with_lock in this step
Deciding(t) == pc[t] = "locked" /\ pc'[t] = "idle"

RiskValid(signal) == validate_signal(signal, daily_loss).is_valid

\* the pending signals of an instrument created less than 5 seconds ago
InWindow(instrument) ==
    {k \in 1..Len(pending_signals) :
        /\ pending_signals[k].instrument = instrument
        /\ pending_signals[k].timestamp > now - 5}

\* the earliest-inserted of them (only used where InWindow is not empty)
FirstInWindow(instrument) ==
    pending_signals[CHOOSE k \in InWindow(instrument) :
                        \A j \in InWindow(instrument) : k <= j]

\* caller t decides a risk-valid signal for an instrument without an open
\* position while an earlier signal of that instrument is in the window
PendingCase(t) ==
    /\ Deciding(t)
    /\ RiskValid(arg[t])
    /\ open_positions[arg[t].instrument] = None
    /\ InWindow(arg[t].instrument) # {}

PendingOf(instrument) ==
    LET same(x) == x.instrument = instrument
    IN  SelectSeq(pending_signals, same)

PendingOfNext(instrument) ==
    LET same(x) == x.instrument = instrument
    IN  SelectSeq(pending_signals', same)

IsPending(signal) == \E k \in 1..Len(pending_signals) : pending_signals[k] = signal

IsPendingNext(signal) ==
    \E k \in 1..Len(pending_signals') : pending_signals'[k] = signal

----------------------------------------------------------------------------
Earlier(t) == FirstInWindow(arg[t].instrument)

SameDirectionCase(t) ==
    PendingCase(t) /\ Earlier(t).direction = arg[t].direction

\* opposite directions, one signal from each detector
ConflictCase(t) ==
    /\ PendingCase(t)
    /\ Earlier(t).direction # arg[t].direction
    /\ {Earlier(t).strategy_id, arg[t].strategy_id} = {"AAFR", "AJR"}

\* the configured windows read as [start, end] pairs of (hour, minute)
MinuteOfDay(t) == 60 * hour(t) + minute(t)

InConfiguredWindow(t, w) ==
    /\ 60 * w[1][1] + w[1][2] <= MinuteOfDay(t)
    /\ MinuteOfDay(t) <= 60 * w[2][1] + w[2][2]

\* the size the risk sizer gives a signal
SizedAt(signal) == calculate_position_size(signal).position_size

(* C3: two same-direction signals in the pending window, merging enabled    *)
(* (and the merged levels form a valid signal): the second call is accepted *)
(* and the size returned and recorded is floor(S * 1.5), S being the risk   *)
(* sizer's size of the first signal.                                        *)
C3_MergedSizeClaim ==
    [][ \A t \in Tasks :
          (SameDirectionCase(t) /\ allow_merging
             /\ _validate(MergedSignal(arg[t], Earlier(t), 0)) = "OK") =>
              /\ result'.accepted
              /\ result'.details.position_size =
                     (SizedAt(Earlier(t)) * 3) \div 2
              /\ open_positions'[arg[t].instrument].position_size =
                     (SizedAt(Earlier(t)) * 3) \div 2
      ]_vars

ConflictOutcome(t, w) ==
    IF w = arg[t].strategy_id
    THEN /\ result'.accepted
         /\ result'.details.signal = arg[t]
    ELSE /\ result'.status = "returned"
         /\ ~result'.accepted
         /\ UNCHANGED <<open_positions, pending_signals>>

(* C6: for opposite-direction signals in the pending window the rule        *)
(* follows the configured windows: AAFR wins inside the continuation window *)
(* 09:30-15:30, AJR wins inside the reversal window 08:30-09:30, and at     *)
(* every other time the first-arrived signal is kept and the later one      *)
(* rejected.                                                                *)
C6_WindowsClaim ==
    [][ \A t \in Tasks :
          ConflictCase(t) =>
              ConflictOutcome(t,
                  IF InConfiguredWindow(now, continuation_hours) THEN "AAFR"
                  ELSE IF InConfiguredWindow(now, reversal_windows) THEN "AJR"
                  ELSE "")
      ]_vars

(* C7: merging two valid same-direction signals never raises: the call      *)
(* returns an acceptance of a valid signal with the more favourable entry,  *)
(* the tighter stop and the union of the take-profits, that signal is the   *)
(* one recorded as open position, and the earlier signal is no longer       *)
(* pending.                                                                 *)
C7_MergeClaim ==
    [][ \A t \in Tasks :
          (SameDirectionCase(t) /\ allow_merging) =>
              /\ result'.status = "returned"
              /\ result'.accepted
              /\ LET m == result'.details.signal
                     buy == arg[t].direction = "BUY"
                 IN  /\ _validate(m) = "OK"
                     /\ m.entry_price =
                          IF buy THEN Min(arg[t].entry_price, Earlier(t).entry_price)
                                 ELSE Max(arg[t].entry_price, Earlier(t).entry_price)
                     /\ m.stop_price =
                          IF buy THEN Max(arg[t].stop_price, Earlier(t).stop_price)
                                 ELSE Min(arg[t].stop_price, Earlier(t).stop_price)
                     /\ Range(m.take_profit) =
                          Range(arg[t].take_profit) \cup Range(Earlier(t).take_profit)
                     /\ open_positions'[arg[t].instrument].signal = m
                     /\ IsPendingNext(m)
                     /\ m # Earlier(t) => ~IsPendingNext(Earlier(t))
      ]_vars

(* C8: an instrument's open-position entry is created exactly by the        *)
(* acceptance of a signal for it and removed exactly by close_position for  *)
(* it, which changes nothing else; the entry is never replaced while it     *)
(* exists, and a decision taken when the entry is absent is never a         *)
(* "Position already open" rejection.                                       *)
C8_PositionLifetime ==
    [][ /\ \A i \in Instruments :
             (open_positions[i] = None /\ open_positions'[i] # None) =>
                 /\ accepted_signals' = accepted_signals + 1
                 /\ \E t \in Tasks : Deciding(t) /\ arg[t].instrument = i
                 /\ result'.accepted
                 /\ open_positions'[i].signal = result'.details.signal
                 /\ open_positions'[i].signal.instrument = i
        /\ accepted_signals' # accepted_signals =>
                 /\ result'.accepted
                 /\ open_positions[result'.details.signal.instrument] = None
                 /\ open_positions'[result'.details.signal.instrument] # None
        /\ \A i \in Instruments :
             (open_positions[i] # None /\ open_positions'[i] = None) =>
                 /\ \A j \in Instruments \ {i} :
                        open_positions'[j] = open_positions[j]
                 /\ UNCHANGED <<now, config, pending_signals, locked, waiters,
                                total_signals, accepted_signals,
                                rejected_signals, merged_signals, daily_loss,
                                pc, arg, ticket, result>>
        /\ \A i \in Instruments :
             open_positions[i] # None =>
                 open_positions'[i] \in {open_positions[i], None}
        /\ \A t \in Tasks :
             (Deciding(t) /\ open_positions[arg[t].instrument] = None) =>
                 result'.reason # "Position already open"
      ]_vars

\* a signal was accepted, its position has been closed since, and a later
\* signal of the same instrument has been accepted after the close
C8_Witness ==
    /\ accepted_signals = 2
    /\ result.accepted
    /\ \E i \in Instruments :
          /\ open_positions[i] # None
          /\ open_positions[i].signal = result.details.signal
          /\ \E k \in 1..Len(pending_signals) :
                /\ pending_signals[k].instrument = i
                /\ pending_signals[k] # open_positions[i].signal
                /\ pending_signals[k].timestamp < open_positions[i].opened_at
          /\ \E j \in Instruments \ {i} : open_positions[j] = None

\* the signal recorded by an acceptance of caller t: its own, or the merge of
\* its own with an earlier one (same detector, instrument and direction)
AcceptedFor(t, recorded) ==
    \/ recorded = arg[t]
    \/ /\ merged_signals' = merged_signals + 1
       /\ recorded.strategy_id = arg[t].strategy_id
       /\ recorded.instrument = arg[t].instrument
       /\ recorded.direction = arg[t].direction

(* C9: a rejection returns a reason and drops the signal: open positions    *)
(* and pending signals are as before the call and only the rejected counter *)
(* moves; a signal is accepted only by the decision of a call that was      *)
(* made with it, so a rejected signal is accepted later only if it is       *)
(* submitted again.                                                         *)
C9_RejectionDrops ==
    [][ /\ \A t \in Tasks :
             (Deciding(t) /\ result'.status = "returned" /\ ~result'.accepted) =>
                 /\ result'.reason # ""
                 /\ result'.details = None
                 /\ rejected_signals' = rejected_signals + 1
                 /\ UNCHANGED <<open_positions, pending_signals,
                                accepted_signals, merged_signals>>
                 /\ arg'[t] = None
        /\ accepted_signals' # accepted_signals =>
                 \E t \in Tasks :
                     /\ Deciding(t)
                     /\ result'.accepted
                     /\ AcceptedFor(t, result'.details.signal)
        /\ \A k \in 1..Len(pending_signals') :
             ~IsPending(pending_signals'[k]) =>
                 \E t \in Tasks :
                     /\ Deciding(t)
                     /\ result'.accepted
                     /\ pending_signals'[k] = result'.details.signal
      ]_vars

\* a later signal has lost the priority decision and was dropped
C9_Witness ==
    /\ result.status = "returned"
    /\ result.reason = "Conflicting signal, pending has priority"
    /\ rejected_signals = 1
    /\ accepted_signals = 1
    /\ Len(pending_signals) = 1

(* C10: a pending signal takes part in the decision of a later signal of    *)
(* its instrument only while it is less than 5 seconds old.  With no such   *)
(* signal, a risk-valid signal for an instrument without open position is   *)
(* accepted as it is, without merge or conflict handling, and older pending *)
(* entries keep their keys.  Nothing but a decision changes the pending     *)
(* signals, and a decision removes only the key of an entry that is still   *)
(* in the window.                                                           *)
C10_LazyWindow ==
    [][ /\ \A t \in Tasks :
             (Deciding(t) /\ RiskValid(arg[t])
                /\ open_positions[arg[t].instrument] = None
                /\ InWindow(arg[t].instrument) = {}) =>
                 /\ result'.accepted
                 /\ result'.details.signal = arg[t]
                 /\ open_positions'[arg[t].instrument].signal = arg[t]
                 /\ merged_signals' = merged_signals
                 /\ \A k \in 1..Len(pending_signals) :
                        DictHas(pending_signals', pending_signals[k].signal_id)
        /\ \A t \in Tasks :
             (Deciding(t) /\ InWindow(arg[t].instrument) = {}) =>
                 /\ result'.status = "returned"
                 /\ result'.reason \in {"Signal accepted and executed",
                                        "Risk validation failed",
                                        "Position already open"}
        /\ pending_signals' # pending_signals => \E t \in Tasks : Deciding(t)
        /\ \A k \in 1..Len(pending_signals) :
             ~DictHas(pending_signals', pending_signals[k].signal_id) =>
                 pending_signals[k].timestamp > now - 5
      ]_vars

\* the last accepted signal was decided with an older entry of its
\* instrument still stored, 5 seconds or more after that entry was created
C10_Witness ==
    /\ result.accepted
    /\ IsPending(result.details.signal)
    /\ \E k \in 1..Len(pending_signals) :
          /\ pending_signals[k].instrument = result.details.signal.instrument
          /\ pending_signals[k].timestamp + 5 <= result.details.signal.timestamp
          /\ pending_signals[k].direction # result.details.signal.direction

----------------------------------------------------------------------------
(* Direct calls of the components: the arbiter stays in its constructed    *)
(* state, `call' holds the arguments and `ret' the outcome.                *)

arbiter == <<now, config, open_positions, pending_signals, locked, waiters,
             total_signals, accepted_signals, rejected_signals,
             merged_signals, daily_loss, pc, arg, ticket, result>>

ArbiterIdle ==
    /\ now = 36000
    /\ enabled = TRUE
    /\ allow_merging = FALSE
    /\ symbols = Instruments
    /\ strategies = Strategies
    /\ InitCommon

ReturnedValue(v) == [status |-> "returned", value |-> v, error |-> ""]
RaisedError(e) == [status |-> "raised", value |-> None, error |-> e]

(* shared/signal_schema.py: TradeSignal(...) *)

SignalArgs ==
    [strategy_id : {"AJR", "XYZ"},
     instrument  : {"NQ", "BTC"},
     direction   : {"BUY", "SELL", "buy", "HOLD"},
     entry_price : {0, 100},
     stop_price  : {0, 90, 100, 110},
     take_profit : {<<>>, <<120>>, <<80>>, <<100>>, <<120, 90>>, <<80, 70>>}]

InitSchema ==
    /\ ArbiterIdle
    /\ call \in SignalArgs
    /\ ret = None
    /\ backtester = None
    /\ ComponentsIdle

\* the constructor: the object exists only when _validate did not raise
Construct ==
    /\ ret = None
    /\ LET s == TradeSignal(call.strategy_id, call.instrument, call.direction,
                            call.entry_price, call.stop_price,
                            call.take_profit, DefaultMaxLossUsd, now, 0)
       IN  ret' = IF _validate(s) = "OK"
                  THEN ReturnedValue(s)
                  ELSE RaisedError(_validate(s))
    /\ UNCHANGED <<arbiter, call, backtester, components>>

NextSchema == Construct

SpecSchema == InitSchema /\ [][NextSchema]_vars

\* the loss side and the profit side of the entry, per direction
LossSide(direction, entry_price, price) ==
    IF direction = "BUY" THEN price < entry_price ELSE price > entry_price

ProfitSide(direction, entry_price, price) ==
    IF direction = "BUY" THEN price > entry_price ELSE price < entry_price

(* C11: every trade signal that exists has its stop strictly on the loss    *)
(* side of the entry, a non-empty take-profit list and every take-profit    *)
(* strictly on the profit side; a construction whose arguments violate one  *)
(* of these raises a validation error and produces no signal.               *)
C11_SignalWellFormed ==
    ret # None =>
        LET d == upper(call.direction)
            ok == /\ LossSide(d, call.entry_price, call.stop_price)
                  /\ Len(call.take_profit) > 0
                  /\ \A k \in 1..Len(call.take_profit) :
                         ProfitSide(d, call.entry_price, call.take_profit[k])
        IN  /\ ~ok => ret.status = "raised" /\ ret.error # "" /\ ret.value = None
            /\ ret.status = "returned" =>
                  /\ ret.value.direction \in {"BUY", "SELL"}
                  /\ ret.value.entry_price = call.entry_price
                  /\ ret.value.stop_price = call.stop_price
                  /\ ret.value.take_profit = call.take_profit
                  /\ LossSide(ret.value.direction, ret.value.entry_price,
                              ret.value.stop_price)
                  /\ ret.value.take_profit # <<>>
                  /\ \A k \in 1..Len(ret.value.take_profit) :
                         ProfitSide(ret.value.direction, ret.value.entry_price,
                                    ret.value.take_profit[k])

\* a BUY with a good stop whose second take-profit is below the entry
C11_Witness ==
    /\ ret # None
    /\ ret.status = "raised"
    /\ call.direction = "BUY"
    /\ call.stop_price = 90
    /\ call.entry_price = 100
    /\ call.take_profit = <<120, 90>>
    /\ call.strategy_id = "AJR"
    /\ call.instrument = "NQ"

(* shared/unified_risk_manager.py: calculate_position_size and             *)
(* validate_signal called with any signal-like object                      *)

SizerArgs ==
    [instrument   : {"NQ", "GC", "BTC"},
     direction    : {"BUY"},
     entry_price  : {100},
     stop_price   : {100, 99, 98, 95, 90, 70, 50, 40, 25, 1},
     take_profit  : {<<120>>, <<110>>, <<110, 160>>, <<190, 250>>},
     max_loss_usd : {100, 750, 1000}]

InitSizer ==
    /\ ArbiterIdle
    /\ call \in SizerArgs
    /\ ret = None
    /\ backtester = None
    /\ ComponentsIdle

Size ==
    /\ ret = None
    /\ ret' = ReturnedValue(calculate_position_size(call))
    /\ UNCHANGED <<arbiter, call, backtester, components>>

NextSizer == Size

SpecSizer == InitSizer /\ [][NextSizer]_vars

InitValidate ==
    /\ ArbiterIdle
    /\ call \in SizerArgs
    /\ ret = None
    /\ backtester = None
    /\ ComponentsIdle

\* validate_signal reads the daily loss the manager holds at that moment
Validate ==
    /\ ret = None
    /\ ret' = ReturnedValue(validate_signal(call, daily_loss))
    /\ UNCHANGED <<arbiter, call, backtester, components>>

NextValidate ==
    \/ Validate
    \/ update_daily_loss(max_risk_usd)
    \/ reset_daily

SpecValidate == InitValidate /\ [][NextValidate]_vars

\* what the five checks of the sizer look at, from the arguments
WhitelistFails(c) == c.instrument \notin ALLOWED_INSTRUMENTS \/ c.instrument \notin Instruments
DailyLimitFails == daily_loss >= daily_loss_limit
ZeroStopFails(c) == Abs(c.entry_price - c.stop_price) = 0
RiskOf(c) ==
    LET per_contract == Abs(c.entry_price - c.stop_price) * tick_value(c.instrument)
        floor_size == c.max_loss_usd \div per_contract
    IN  (IF floor_size >= 1 THEN floor_size ELSE 1) * per_contract
CapFails(c) == 10 * RiskOf(c) > 11 * max_risk_usd
RMultiple100(c, k) ==
    (200 * Abs(c.take_profit[k] - c.entry_price) + Abs(c.entry_price - c.stop_price))
        \div (2 * Abs(c.entry_price - c.stop_price))
WorstRFails(c) == \E k \in 1..Len(c.take_profit) : RMultiple100(c, k) < MinRMultiple100
BestRFails(c) == \A k \in 1..Len(c.take_profit) : RMultiple100(c, k) < MinRMultiple100

\* the reason the first failing check gives, with `r_fails' as fifth check
FirstFailure(c, r_fails) ==
    IF WhitelistFails(c) THEN {"Instrument not allowed", "Instrument not configured"}
    ELSE IF DailyLimitFails THEN {"Daily loss limit reached"}
    ELSE IF ZeroStopFails(c) THEN {"Invalid position size"}
    ELSE IF CapFails(c) THEN {"Risk exceeds max"}
    ELSE IF r_fails THEN {"R multiple too low"}
    ELSE {"Signal validated"}

ValidateStep == ret = None /\ ret' # None

(* C13: the sizer applies its checks in the order whitelist, daily loss     *)
(* limit, zero stop distance, risk above the cap with tolerance, worst      *)
(* (lowest) take-profit R-multiple below the minimum, and returns, without  *)
(* raising, the reason of the first check that fails.                       *)
C13_CheckOrderClaim ==
    [][ ValidateStep =>
          /\ ret'.status = "returned"
          /\ ret'.value.msg \in FirstFailure(call, WorstRFails(call))
          /\ ret'.value.is_valid = (ret'.value.msg = "Signal validated")
      ]_vars

(* C14: while the daily loss is at or beyond the daily loss limit, equal    *)
(* included, every validation of a signal for a whitelisted (and            *)
(* configured) instrument is a rejection with the daily-limit reason,       *)
(* whatever the signal; the daily loss leaves that range only by the reset  *)
(* of the daily counters.                                                   *)
C14_DailyLimitRejects ==
    [][ /\ (ValidateStep /\ daily_loss >= daily_loss_limit
               /\ call.instrument \in ALLOWED_INSTRUMENTS \cap Instruments) =>
              /\ ret'.status = "returned"
              /\ ~ret'.value.is_valid
              /\ ret'.value.msg = "Daily loss limit reached"
              /\ ret'.value.details = None
        /\ (daily_loss >= daily_loss_limit /\ daily_loss' < daily_loss_limit) =>
              /\ daily_loss' = 0
              /\ UNCHANGED <<call, ret>>
      ]_vars

\* a signal that every other check accepts, refused with the loss exactly
\* at the limit
C14_Witness ==
    /\ daily_loss = daily_loss_limit
    /\ ret # None
    /\ ret.value.msg = "Daily loss limit reached"
    /\ call.instrument = "NQ"
    /\ call.stop_price = 70
    /\ call.take_profit = <<190, 250>>
    /\ call.max_loss_usd = 750

----------------------------------------------------------------------------
(* aafr/utils.py, aafr/cvd_module.py, aafr/icc_module.py: the phase        *)
(* detector.  Candle indices are the 0-based indices of the code.          *)

TailLen == 5
PrefixLen == 16

BasePrice == 1000
CandleVolume == 100
TailBodies == {-10, -1, 0, 1, 10}

At(s, i) == s[i + 1]

RECURSIVE Sum(_)
Sum(s) == IF s = <<>> THEN 0 ELSE Head(s) + Sum(Tail(s))

\* the last n elements of a sequence, s[-n:]
LastN(s, n) == IF Len(s) <= n THEN s ELSE SubSeq(s, Len(s) - n + 1, Len(s))

\* s[a:b] of the code
Slice(s, a, b) == IF b <= a THEN <<>> ELSE SubSeq(s, a + 1, Min(b, Len(s)))

\* close - open of every candle of a series: `prefix' candles of body
\* `trend', then the bodies of `tail'
Bodies(c) == [k \in 1..c.prefix |-> c.trend] \o c.tail

RECURSIVE CloseAfter(_, _)
CloseAfter(bodies, k) ==
    IF k = 0 THEN BasePrice ELSE CloseAfter(bodies, k - 1) + bodies[k]

\* a candle series as utils.generate_mock_candles lays it out: every candle
\* opens at the previous close and carries its index as timestamp
Candles(c) ==
    LET bodies == Bodies(c)
    IN  [k \in 1..Len(bodies) |->
            LET o == CloseAfter(bodies, k - 1)
                cl == o + bodies[k]
            IN  [timestamp |-> k - 1,
                 open |-> o,
                 high |-> Max(o, cl) + 1,
                 low |-> Min(o, cl) - 1,
                 close |-> cl,
                 volume |-> CandleVolume]]

AtrPeriod == 14

\* utils.calculate_atr over highs, lows and closes of `candles': None, or
\* the sum of the last 14 true ranges (the ATR is that sum / 14)
calculate_atr(candles) ==
    IF Len(candles) < AtrPeriod + 1 THEN None
    ELSE LET true_ranges ==
                 [i \in 1..(Len(candles) - 1) |->
                     LET c == At(candles, i)
                         prev_close == At(candles, i - 1).close
                     IN  Max(c.high - c.low,
                             Max(Abs(c.high - prev_close), Abs(c.low - prev_close)))]
         IN  [sum |-> Sum(LastN(true_ranges, AtrPeriod)), period |-> AtrPeriod]

\* CVDCalculator._calculate_volume_deltas: 52/48, 48/52 or 50/50 split
_calculate_volume_deltas(candles) ==
    [k \in 1..Len(candles) |->
        LET c == candles[k]
            buy_vol == IF c.close > c.open THEN (c.volume * 52) \div 100
                       ELSE IF c.close < c.open THEN (c.volume * 48) \div 100
                       ELSE (c.volume * 50) \div 100
        IN  buy_vol - (c.volume - buy_vol)]

\* CVDCalculator.calculate_cvd: the running sum of the deltas
calculate_cvd(candles) ==
    LET deltas == _calculate_volume_deltas(candles)
    IN  [k \in 1..Len(candles) |-> Sum(SubSeq(deltas, 1, k))]

PriceDirection(candle) == IF candle.close > candle.open THEN "UP" ELSE "DOWN"

CvdDirection(cvd_values, idx) ==
    LET cvd_before == IF idx > 0 THEN At(cvd_values, idx - 1) ELSE 0
    IN  IF At(cvd_values, idx) - cvd_before > 0 THEN "UP" ELSE "DOWN"

analyze_indication_phase(candles, cvd_values, idx) ==
    /\ idx >= 0
    /\ idx < Len(candles)
    /\ PriceDirection(At(candles, idx)) = CvdDirection(cvd_values, idx)

\* abs_change < prev_cvd_change * 0.6
analyze_correction_phase(cvd_values, correction_start, correction_end) ==
    IF correction_start >= correction_end \/ correction_end >= Len(cvd_values)
    THEN FALSE
    ELSE LET abs_change == Abs(At(cvd_values, correction_end)
                                 - At(cvd_values, correction_start))
             prev_cvd_change ==
                 Abs(At(cvd_values, correction_start)
                       - At(cvd_values, Max(0, correction_start - 5)))
         IN  IF correction_start > 0
             THEN 10 * abs_change < 6 * prev_cvd_change
             ELSE TRUE

analyze_continuation_phase(candles, cvd_values, idx) ==
    /\ idx < Len(candles)
    /\ idx < Len(cvd_values)
    /\ PriceDirection(At(candles, idx)) = CvdDirection(cvd_values, idx)

\* CVDCalculator.check_divergence over the last `lookback' candles
check_divergence(candles, cvd_values, lookback) ==
    IF Len(candles) < lookback \/ Len(cvd_values) < lookback THEN FALSE
    ELSE LET recent_candles == LastN(candles, lookback)
             recent_cvd == LastN(cvd_values, lookback)
             price_trend == IF recent_candles[Len(recent_candles)].close
                                 > recent_candles[1].close THEN "UP" ELSE "DOWN"
             cvd_trend == IF recent_cvd[Len(recent_cvd)] > recent_cvd[1]
                          THEN "UP" ELSE "DOWN"
         IN  price_trend # cvd_trend

MinCandlesForStructure == 20
IndicationLookback == 20
CorrectionScan == 20

CandleDirection(candle) == IF candle.close > candle.open THEN "LONG" ELSE "SHORT"

\* body_size >= atr * min_atr_for_displacement, with the default 1.5
IsDisplacement(candle, atr) ==
    2 * atr.period * Abs(candle.close - candle.open) >= 3 * atr.sum

\* ICCDetector._detect_indication: the first displacement candle of the
\* lookback whose volume delta agrees with it
_detect_indication(candles, cvd_values) ==
    LET atr == calculate_atr(candles)
        lookback == Min(IndicationLookback, Len(candles))
        found == {i \in (Len(candles) - lookback)..(Len(candles) - 1) :
                     /\ IsDisplacement(At(candles, i), atr)
                     /\ analyze_indication_phase(candles, cvd_values, i)}
    IN  IF Len(candles) < 15 \/ atr = None \/ found = {} THEN None
        ELSE LET i == CHOOSE x \in found : \A y \in found : x <= y
             IN  [idx |-> i,
                  candle |-> At(candles, i),
                  direction |-> CandleDirection(At(candles, i)),
                  atr |-> atr,
                  cvd_valid |-> TRUE]

\* a candle against / along the direction of the indication candle
Opposes(candle, direction) ==
    IF direction = "LONG" THEN candle.close < candle.open
    ELSE candle.close > candle.open

Resumes(candle, direction) ==
    IF direction = "LONG" THEN candle.close > candle.open
    ELSE candle.close < candle.open

\* ICCDetector._detect_correction: the first candle against the indication
\* after it, then the first later candle along it
_detect_correction(candles, cvd_values, indication_idx) ==
    LET direction == CandleDirection(At(candles, indication_idx))
        scan == (indication_idx + 1)..(Min(indication_idx + CorrectionScan, Len(candles)) - 1)
        starts == {i \in scan : Opposes(At(candles, i), direction)}
        correction_start == CHOOSE x \in starts : \A y \in starts : x <= y
        ends == {i \in scan : i > correction_start /\ Resumes(At(candles, i), direction)}
        correction_end == CHOOSE x \in ends : \A y \in ends : x <= y
    IN  IF indication_idx >= Len(candles) - 3 THEN None
        ELSE IF starts = {} THEN None
        ELSE IF ends = {} THEN None
        ELSE IF analyze_correction_phase(cvd_values, correction_start, correction_end)
             THEN [start_idx |-> correction_start,
                   end_idx |-> correction_end,
                   cvd_valid |-> TRUE]
             ELSE None

_detect_continuation_CandleAfter(candles, cvd_values, correction_end_idx, indication_candle_idx) ==
    LET continuation_idx == correction_end_idx + 1
        candle == At(candles, continuation_idx)
        direction == CandleDirection(At(candles, indication_candle_idx))
    IN  IF continuation_idx >= Len(candles) THEN None
        ELSE IF CandleDirection(candle) # direction THEN None
        ELSE IF analyze_continuation_phase(candles, cvd_values, continuation_idx)
             THEN [idx |-> continuation_idx, candle |-> candle, cvd_valid |-> TRUE]
             ELSE None

\* ICCDetector._detect_continuation: the candle at the correction end
_detect_continuation(candles, cvd_values, correction_end_idx, indication_candle_idx) ==
    LET continuation_idx == correction_end_idx
        candle == At(candles, continuation_idx)
        direction == CandleDirection(At(candles, indication_candle_idx))
    IN  IF correction_end_idx >= Len(candles) THEN None
        ELSE IF CandleDirection(candle) # direction THEN None
        ELSE IF analyze_continuation_phase(candles, cvd_values, continuation_idx)
             THEN [idx |-> continuation_idx, candle |-> candle, cvd_valid |-> TRUE]
             ELSE None

Structure(indication, correction, continuation, complete) ==
    [indication |-> indication, correction |-> correction,
     continuation |-> continuation, complete |-> complete]

\* ICCDetector.detect_icc_structure
detect_icc_structure(candles, require_all_phases) ==
    LET cvd_values == calculate_cvd(candles)
        indication == _detect_indication(candles, cvd_values)
        correction == _detect_correction(candles, cvd_values, indication.idx)
        continuation == _detect_continuation(candles, cvd_values,
                                             correction.end_idx, indication.idx)
    IN  IF Len(candles) < MinCandlesForStructure THEN None
        ELSE IF indication = None THEN None
        ELSE IF correction = None
             THEN IF require_all_phases THEN None
                  ELSE Structure(indication, None, None, FALSE)
        ELSE IF continuation = None
             THEN IF require_all_phases THEN None
                  ELSE Structure(indication, correction, None, FALSE)
        ELSE Structure(indication, correction, continuation, TRUE)

\* ICCDetector.validate_full_setup: the list of violations is empty
validate_full_setup(icc_structure, candles) ==
    /\ icc_structure # None
    /\ icc_structure.complete
    /\ icc_structure.correction # None
    /\ icc_structure.continuation # None
    /\ icc_structure.continuation.cvd_valid
    /\ ~check_divergence(candles, calculate_cvd(candles), 5)

SeriesArgs ==
    [prefix : {PrefixLen},
     trend : {0, 1},
     tail : [1..TailLen -> TailBodies],
     require_all_phases : BOOLEAN]

InitDetector ==
    /\ ArbiterIdle
    /\ call \in SeriesArgs
    /\ ret = None
    /\ backtester = None
    /\ ComponentsIdle

Detect ==
    /\ ret = None
    /\ ret' = ReturnedValue(detect_icc_structure(Candles(call), call.require_all_phases))
    /\ UNCHANGED <<arbiter, call, backtester, components>>

NextDetector == Detect

SpecDetector == InitDetector /\ [][NextDetector]_vars

CompleteStructure == ret # None /\ ret.value # None /\ ret.value.complete

OutcomeWindow == 100
AjrOutcomeWindow == 200

Outcome(pnl, r_achieved) == [pnl |-> pnl, r_achieved |-> r_achieved]

StopHit(direction, candle, stop) ==
    \/ direction = "LONG" /\ candle.low <= stop
    \/ direction = "SHORT" /\ candle.high >= stop

TargetHit(direction, candle, tp) ==
    \/ direction = "LONG" /\ candle.high >= tp
    \/ direction = "SHORT" /\ candle.low <= tp

_simulate_trade_outcome_TargetFirst(entry, stop, tp, r_multiple, position_size, direction, candles, start_idx) ==
    LET window == start_idx..(Min(start_idx + OutcomeWindow, Len(candles)) - 1)
        hits == {i \in window : \/ StopHit(direction, At(candles, i), stop)
                                \/ TargetHit(direction, At(candles, i), tp)}
        first == CHOOSE x \in hits : \A y \in hits : x <= y
    IN  IF start_idx >= Len(candles) THEN Outcome(0, 0)
        ELSE IF hits = {} THEN Outcome(0, 0)
        ELSE IF TargetHit(direction, At(candles, first), tp)
             THEN Outcome(Abs(tp - entry) * position_size, r_multiple)
        ELSE Outcome(-(Abs(entry - stop) * position_size), -100)

\* Backtester._simulate_trade_outcome: the first candle of the window that
\* touches the stop or the target decides, the stop being tested first
_simulate_trade_outcome(entry, stop, tp, r_multiple, position_size, direction, candles, start_idx) ==
    LET window == start_idx..(Min(start_idx + OutcomeWindow, Len(candles)) - 1)
        hits == {i \in window : \/ StopHit(direction, At(candles, i), stop)
                                \/ TargetHit(direction, At(candles, i), tp)}
        first == CHOOSE x \in hits : \A y \in hits : x <= y
    IN  IF start_idx >= Len(candles) THEN Outcome(0, 0)
        ELSE IF hits = {} THEN Outcome(0, 0)
        ELSE IF StopHit(direction, At(candles, first), stop)
             THEN Outcome(-((IF direction = "LONG" THEN entry - stop ELSE stop - entry)
                            * position_size), -100)
        ELSE Outcome((IF direction = "LONG" THEN tp - entry ELSE entry - tp)
                     * position_size, r_multiple)

\* a quiet series with one candle reaching the stop and one reaching the
\* target, at the given indices (an index outside the series: no such candle)
EventCandles(c) ==
    [k \in 1..c.len |->
        LET i == k - 1
            up == IF c.direction = "LONG" THEN i = c.target_at ELSE i = c.stop_at
            down == IF c.direction = "LONG" THEN i = c.stop_at ELSE i = c.target_at
        IN  [timestamp |-> i,
             open |-> c.entry,
             high |-> IF up THEN c.entry + c.distance * (IF c.direction = "LONG" THEN 3 ELSE 1)
                      ELSE c.entry + 1,
             low |-> IF down THEN c.entry - c.distance * (IF c.direction = "LONG" THEN 1 ELSE 3)
                     ELSE c.entry - 1,
             close |-> c.entry,
             volume |-> CandleVolume]]

StopOf(c) == IF c.direction = "LONG" THEN c.entry - c.distance ELSE c.entry + c.distance
TargetOf(c) == IF c.direction = "LONG" THEN c.entry + 3 * c.distance ELSE c.entry - 3 * c.distance

EventAt == {0, 1, 2, 100, 101, 102}

OutcomeArgs ==
    [direction : {"LONG", "SHORT"},
     entry : {BasePrice},
     distance : {10},
     r_multiple : {300},
     position_size : {1, 3},
     len : {1, 3, 110},
     start_idx : {1, 2},
     stop_at : EventAt,
     target_at : EventAt]

InitOutcome ==
    /\ ArbiterIdle
    /\ call \in OutcomeArgs
    /\ ret = None
    /\ backtester = None
    /\ ComponentsIdle

SimulateOutcome ==
    /\ ret = None
    /\ ret' = ReturnedValue(_simulate_trade_outcome(call.entry, StopOf(call), TargetOf(call),
                                                    call.r_multiple, call.position_size,
                                                    call.direction, EventCandles(call),
                                                    call.start_idx))
    /\ UNCHANGED <<arbiter, call, backtester, components>>

NextOutcome == SimulateOutcome

SpecOutcome == InitOutcome /\ [][NextOutcome]_vars

\* the candles the simulator may look at, and which of them touch a level
InScan(c, i) == i >= c.start_idx /\ i < c.start_idx + 100 /\ i < c.len
StopTouched(c, i) == InScan(c, i) /\ c.stop_at = i
TargetTouched(c, i) == InScan(c, i) /\ c.target_at = i
Undecided(c, i) == \A j \in 0..(i - 1) : ~StopTouched(c, j) /\ ~TargetTouched(c, j)

(* C18, for a direct call of the simulator: within the 100 candles from    *)
(* the start index the first candle touching the stop or the target        *)
(* decides; the stop (also when the same candle touches the target) gives  *)
(* -|entry - stop| * size at -1R, the target |target - entry| * size at    *)
(* the R-multiple passed in, and no touch gives 0 P&L and 0 R.             *)
C18_OutcomeOfCall ==
    ret # None =>
        LET v == ret.value
            n == call.len
        IN  /\ \A i \in 0..n :
                   StopTouched(call, i) /\ Undecided(call, i) =>
                       v = Outcome(-(call.distance * call.position_size), -100)
            /\ \A i \in 0..n :
                   TargetTouched(call, i) /\ ~StopTouched(call, i) /\ Undecided(call, i) =>
                       v = Outcome(3 * call.distance * call.position_size, call.r_multiple)
            /\ (\A i \in 0..n : ~StopTouched(call, i) /\ ~TargetTouched(call, i)) =>
                   v = Outcome(0, 0)

\* the stop and the target are touched by the same candle, the last one of
\* the window, and the stop wins
C18_OutcomeWitness ==
    /\ ret # None
    /\ call.stop_at = call.start_idx + 99
    /\ call.target_at = call.stop_at
    /\ call.len > call.stop_at + 1
    /\ ret.value.r_achieved = -100

\* the contracts meant for each target: tp_contracts before the scan
AllocateContracts(n_targets, position_size) ==
    LET a1 == IF n_targets >= 1 THEN <<Min(1, position_size)>> ELSE <<>>
        a2 == IF n_targets >= 2 THEN Append(a1, Min(1, position_size - Sum(a1))) ELSE a1
        a3 == IF n_targets >= 3 THEN Append(a2, position_size - Sum(a2)) ELSE a2
    IN  SubSeq(a3, 1, Min(Len(a3), position_size))

AjrOutcome(pnl, r_achieved, tp_hit) == [pnl |-> pnl, r_achieved |-> r_achieved, tp_hit |-> tp_hit]

\* R as the quotient the code forms, kept as <<numerator, denominator>>
Quotient(total_pnl, total_risk) == IF total_risk > 0 THEN <<total_pnl, total_risk>> ELSE <<0, 1>>

AjrStopHit(signal, candle) ==
    \/ signal.direction = "BUY" /\ candle.low <= signal.stop_price
    \/ signal.direction = "SELL" /\ candle.high >= signal.stop_price

AjrTargetHit(signal, candle, tp_price) ==
    \/ signal.direction = "BUY" /\ candle.high >= tp_price
    \/ signal.direction = "SELL" /\ candle.low <= tp_price

\* the inner loop `for tp_idx, tp_price in enumerate(tps)' on one candle
RECURSIVE CheckTargets(_, _, _, _, _)
CheckTargets(st, tp_idx, signal, candle, position_size) ==
    IF st.returned # None \/ tp_idx >= Len(signal.take_profit) THEN st
    ELSE IF tp_idx >= Len(st.tp_contracts) \/ At(st.tp_contracts, tp_idx) = 0
         THEN CheckTargets(st, tp_idx + 1, signal, candle, position_size)
    ELSE LET tp_price == At(signal.take_profit, tp_idx)
             contracts_at_tp == At(st.tp_contracts, tp_idx)
             profit_per_contract == Abs(tp_price - signal.entry_price) * tick_value(signal.instrument)
             total_pnl == st.total_pnl + profit_per_contract * contracts_at_tp
             contracts_remaining == st.contracts_remaining - contracts_at_tp
             tp_hit == Append(st.tp_hit, tp_idx + 1)
             total_risk == Abs(signal.entry_price - signal.stop_price)
                           * tick_value(signal.instrument) * position_size
             filled == [st EXCEPT !.total_pnl = total_pnl,
                                  !.contracts_remaining = contracts_remaining,
                                  !.tp_contracts[tp_idx + 1] = 0,
                                  !.tp_hit = tp_hit]
         IN  IF ~AjrTargetHit(signal, candle, tp_price)
             THEN CheckTargets(st, tp_idx + 1, signal, candle, position_size)
             ELSE IF contracts_remaining <= 0
                  THEN [filled EXCEPT !.returned =
                           AjrOutcome(total_pnl, Quotient(total_pnl, total_risk), tp_hit)]
             ELSE CheckTargets(filled, tp_idx + 1, signal, candle, position_size)

\* the outer loop `for i in range(start_idx, max_lookahead)'
RECURSIVE ScanCandles(_, _, _, _, _, _)
ScanCandles(st, i, max_lookahead, signal, candles, position_size) ==
    IF st.returned # None \/ i >= max_lookahead THEN st
    ELSE LET candle == At(candles, i)
             loss_per_contract == Abs(signal.entry_price - signal.stop_price)
                                  * tick_value(signal.instrument)
         IN  IF AjrStopHit(signal, candle)
             THEN [st EXCEPT !.returned =
                      AjrOutcome(-(loss_per_contract * st.contracts_remaining),
                                 <<-1, 1>>, <<"STOP">>)]
             ELSE ScanCandles(CheckTargets(st, 0, signal, candle, position_size),
                              i + 1, max_lookahead, signal, candles, position_size)

\* AJRBacktester._simulate_ajr_trade_outcome (pnl, r_achieved and tp_hit of
\* the result; tp_hit as the list of target numbers, or STOP, or NONE)
_simulate_ajr_trade_outcome(signal, position_size, candles, start_idx) ==
    LET stop_risk_dollars == Abs(signal.entry_price - signal.stop_price)
                             * tick_value(signal.instrument)
        st0 == [tp_contracts |-> AllocateContracts(Len(signal.take_profit), position_size),
                contracts_remaining |-> position_size,
                total_pnl |-> 0,
                tp_hit |-> <<>>,
                returned |-> None]
        max_lookahead == Min(start_idx + AjrOutcomeWindow, Len(candles))
        st == ScanCandles(st0, start_idx, max_lookahead, signal, candles, position_size)
        filled_contracts == position_size - st.contracts_remaining
    IN  IF start_idx >= Len(candles) THEN AjrOutcome(0, <<0, 1>>, None)
        ELSE IF st.returned # None THEN st.returned
        ELSE AjrOutcome(st.total_pnl,
                        IF st.contracts_remaining < position_size
                        THEN Quotient(st.total_pnl, stop_risk_dollars * filled_contracts)
                        ELSE <<0, 1>>,
                        IF st.tp_hit # <<>> THEN st.tp_hit ELSE <<"NONE">>)

\* a candle given by how far it runs for and against the trade
Excursion(signal, i, favourable, adverse) ==
    [timestamp |-> i,
     open |-> signal.entry_price,
     high |-> signal.entry_price + (IF signal.direction = "BUY" THEN favourable ELSE adverse),
     low |-> signal.entry_price - (IF signal.direction = "BUY" THEN adverse ELSE favourable),
     close |-> signal.entry_price,
     volume |-> CandleVolume]

ExcursionCandles(c) ==
    [k \in 1..(c.start_idx + Len(c.moves)) |->
        IF k <= c.start_idx THEN Excursion(c.signal, k - 1, 30, 10)
        ELSE Excursion(c.signal, k - 1, c.moves[k - c.start_idx][1], c.moves[k - c.start_idx][2])]

MaxMoves == 3
Moves == {<<5, 5>>, <<10, 5>>, <<20, 5>>, <<30, 5>>, <<5, 10>>, <<20, 10>>}

AjrSignals ==
    {[instrument |-> "NQ", direction |-> d, entry_price |-> 100,
      stop_price |-> IF d = "BUY" THEN 90 ELSE 110,
      take_profit |-> [k \in 1..n |-> IF d = "BUY" THEN 100 + 10 * k ELSE 100 - 10 * k]] :
        d \in {"BUY", "SELL"}, n \in 1..3}

AjrOutcomeArgs ==
    [signal : AjrSignals,
     position_size : 1..3,
     start_idx : {1},
     moves : UNION {[1..n -> Moves] : n \in 0..MaxMoves}]

InitAjrOutcome ==
    /\ ArbiterIdle
    /\ call \in AjrOutcomeArgs
    /\ ret = None
    /\ backtester = None
    /\ ComponentsIdle

SimulateAjrOutcome ==
    /\ ret = None
    /\ ret' = ReturnedValue(_simulate_ajr_trade_outcome(call.signal, call.position_size,
                                                        ExcursionCandles(call), call.start_idx))
    /\ UNCHANGED <<arbiter, call, backtester, components>>

NextAjrOutcome == SimulateAjrOutcome

SpecAjrOutcome == InitAjrOutcome /\ [][NextAjrOutcome]_vars

\* the candle that stops the trade out (0 when none does), and the targets
\* with a slice of their own that were reached before it
StoppedAt(c) ==
    LET stops == {k \in 1..Len(c.moves) : c.moves[k][2] >= 10}
    IN  IF stops = {} THEN 0 ELSE CHOOSE x \in stops : \A y \in stops : x <= y

SlicesOf(c) == Min(Len(c.signal.take_profit), c.position_size)

ReachedBefore(c, last) == {t \in 1..SlicesOf(c) : \E k \in 1..last : c.moves[k][1] >= 10 * t}

SliceProfit(c, reached) == Sum([t \in 1..SlicesOf(c) |-> IF t \in reached THEN 10 * t * tick_value(c.signal.instrument) ELSE 0])

ExpectedPnl(c) ==
    LET horizon == IF StoppedAt(c) = 0 THEN Len(c.moves) ELSE StoppedAt(c) - 1
        reached == ReachedBefore(c, horizon)
        open_contracts == c.position_size - Cardinality(reached)
    IN  SliceProfit(c, reached)
        - (IF StoppedAt(c) # 0
           THEN 10 * tick_value(c.signal.instrument) * open_contracts ELSE 0)

(* C19: the P&L of a multi-target trade is the sum over its closed slices: *)
(* the profit of every target reached (one contract each, in order) plus   *)
(* the loss at the stop of the contracts still open when the stop is hit;  *)
(* profit taken at an earlier target is kept when the stop is hit later,   *)
(* and contracts open at the end of the window contribute 0.               *)
C19_SlicePnlClaim ==
    ret # None => ret.value.pnl = ExpectedPnl(call)

(***************************************************************************)
(* aafr/backtester.py and aafr/risk_engine.py: a whole backtest run.       *)
(* The stop lies 0.1% of the entry beyond the correction and the target    *)
(* is a multiple of the 14-period ATR, so run-level prices, P&L and equity *)
(* are integers counted in 1/14000 of a price unit (PriceScale); quotients *)
(* (R-multiples, percentages, averages) are reduced fractions <<n, d>>.    *)
(* A datetime is either a reading of the wall clock or the conversion of a *)
(* candle timestamp.  sharpe_ratio (a square root) is left out of the      *)
(* metrics.                                                                *)
(***************************************************************************)
PriceScale == 1000 * AtrPeriod

RECURSIVE GCD(_, _)
GCD(a, b) == IF b = 0 THEN a ELSE GCD(b, a % b)

\* the quotient n / d in lowest terms (d > 0)
Frac(n, d) == LET g == GCD(Abs(n), d) IN <<n \div g, d \div g>>

\* n1/d1 > n2/d2 for non-negative quotients, without forming products
RECURSIVE FracGreater(_, _, _, _)
FracGreater(n1, d1, n2, d2) ==
    LET q1 == n1 \div d1
        q2 == n2 \div d2
        r1 == n1 % d1
        r2 == n2 % d2
    IN  IF q1 # q2 THEN q1 > q2
        ELSE IF r1 = 0 THEN FALSE
        ELSE IF r2 = 0 THEN TRUE
        ELSE FracGreater(d2, r2, d1, r1)

WallClock(t) == [source |-> "now", at |-> t]
FromTimestamp(ts) == [source |-> "candle", at |-> ts]

\* datetime.fromtimestamp(ts) for a positive timestamp, datetime.now() otherwise
TimestampOrNow(ts, t) == IF ts > 0 THEN FromTimestamp(ts) ELSE WallClock(t)

\* RiskEngine configuration (account section and icc section of config.json)
max_risk_per_trade == <<1, 2>>
min_r_multiple == 200
max_daily_trades == 20

\* wall-clock readings; on the readings in EventDates date.today() is one of
\* the hard-coded FOMC/NFP/CPI dates
Clock == {1, 2, 3}
EventDates == {3}

is_trading_restricted(t) == t \in EventDates

\* ICCDetector.calculate_r_multiple with preferred_r = 3: the reward
\* distance max(atr * 3, risk_distance * 3) over the risk distance
RewardDistance(entry, stop, candles) ==
    LET risk_distance == Abs(entry - stop)
        atr == calculate_atr(LastN(candles, 20))
    IN  IF risk_distance = 0 THEN 0
        ELSE IF atr = None THEN 3 * risk_distance
        ELSE Max(3 * 1000 * atr.sum, 3 * risk_distance)

calculate_r_multiple(entry, stop, candles) ==
    IF Abs(entry - stop) = 0 THEN <<0, 1>>
    ELSE Frac(RewardDistance(entry, stop, candles), Abs(entry - stop))

RECURSIVE MinOf(_)
MinOf(s) == IF Len(s) = 1 THEN s[1] ELSE Min(s[1], MinOf(Tail(s)))

RECURSIVE MaxOf(_)
MaxOf(s) == IF Len(s) = 1 THEN s[1] ELSE Max(s[1], MaxOf(Tail(s)))

\* Backtester._calculate_trade_levels
_calculate_trade_levels(icc_structure, candles) ==
    LET entry == icc_structure.continuation.candle.close
        direction == icc_structure.indication.direction
        correction_candles == Slice(candles, icc_structure.correction.start_idx,
                                    icc_structure.correction.end_idx + 1)
        lows == [k \in 1..Len(correction_candles) |-> correction_candles[k].low]
        highs == [k \in 1..Len(correction_candles) |-> correction_candles[k].high]
        stop == IF direction = "LONG"
                THEN PriceScale * MinOf(lows) - AtrPeriod * entry
                ELSE PriceScale * MaxOf(highs) + AtrPeriod * entry
        reward_distance == RewardDistance(PriceScale * entry, stop, candles)
    IN  [entry |-> PriceScale * entry,
         stop |-> stop,
         tp |-> IF direction = "LONG" THEN PriceScale * entry + reward_distance
                ELSE PriceScale * entry - reward_distance,
         r_multiple |-> calculate_r_multiple(PriceScale * entry, stop, candles),
         direction |-> direction]

\* RiskEngine.calculate_position_size, tick_size one price unit (None for an
\* unknown instrument or a zero stop distance)
RiskEnginePositionSize(entry, stop, symbol) ==
    LET dollar_risk == (account_size * max_risk_per_trade[1]) \div (max_risk_per_trade[2] * 100)
        ticks_risk == Abs(entry - stop)
    IN  IF symbol \notin Instruments THEN None
        ELSE IF ticks_risk = 0 THEN None
        ELSE Max(1, (dollar_risk * PriceScale) \div (ticks_risk * tick_value(symbol)))

\* RiskEngine.validate_trade_setup as the backtest reaches it: daily_pnl and
\* daily_trades are 0 (reset_daily_tracking at the start of the run, never
\* updated by it), r_multiple is the literal 3.0
validate_trade_setup(entry, stop, direction, symbol, t) ==
    LET daily_pnl == 0
        daily_trades == 0
        r_multiple == 300
        position_size == RiskEnginePositionSize(entry, stop, symbol)
        dollar_risk == Abs(entry - stop) * tick_value(symbol) * position_size
        risk_percent == Frac(dollar_risk, (PriceScale \div 100) * account_size)
        rejected == [valid |-> FALSE, trade_details |-> None]
    IN  IF is_trading_restricted(t) THEN rejected
        ELSE IF daily_pnl <= -1500 THEN rejected
        ELSE IF daily_trades >= max_daily_trades THEN rejected
        ELSE IF Abs(entry - stop) = 0 THEN rejected
        ELSE IF r_multiple < min_r_multiple THEN rejected
        ELSE IF symbol \notin Instruments THEN rejected
        ELSE IF FracGreater(risk_percent[1], risk_percent[2], max_risk_per_trade[1], max_risk_per_trade[2]) THEN rejected
        ELSE [valid |-> TRUE,
              trade_details |-> [r_multiple |-> r_multiple,
                                 position_size |-> position_size,
                                 dollar_risk |-> dollar_risk,
                                 risk_percent |-> risk_percent]]

\* the candle series of a run: a steady prefix, three candles that may form
\* the phases, and a free tail; with timestamps counted from first_timestamp.
\* Also a series too short to be scanned, and no candles at all.
BtPrefixLen == 47
BtTailLen == 3
BtBodies == {-30, 10}
PhaseShapes == {<<10, -1, 1>>, <<-10, 1, -1>>, <<10, -1, 10>>, <<1, 1, 1>>}

BacktestSeries ==
    {[prefix |-> BtPrefixLen, trend |-> 1, tail |-> shape \o after, first_timestamp |-> 0] :
        shape \in PhaseShapes, after \in [1..BtTailLen -> BtBodies]}
    \cup {[prefix |-> n, trend |-> 1, tail |-> <<10, -1, 1, 1, 10, -10>>, first_timestamp |-> 1] :
             n \in {0, BtPrefixLen}}
    \cup {[prefix |-> 0, trend |-> 1, tail |-> <<>>, first_timestamp |-> 0]}

BtCandles(series) ==
    LET candles == Candles(series)
    IN  [k \in 1..Len(candles) |->
            [candles[k] EXCEPT !.timestamp = series.first_timestamp + k - 1]]

\* candle highs and lows on the scale of the run's stop and target
Scaled(candles) ==
    [k \in 1..Len(candles) |->
        [candles[k] EXCEPT !.high = PriceScale * candles[k].high,
                           !.low = PriceScale * candles[k].low]]

lookahead == 50

\* run_backtest, body of the scan up to the risk engine: the levels of the
\* setup seen at candle i, None when the scan continues without one
SetupAt(candles, i) ==
    LET history == SubSeq(candles, 1, i + 1)
        icc_structure == detect_icc_structure(history, TRUE)
        levels == _calculate_trade_levels(icc_structure, history)
    IN  IF icc_structure = None THEN None
        ELSE IF ~icc_structure.complete THEN None
        ELSE IF ~validate_full_setup(icc_structure, history) THEN None
        ELSE IF levels.r_multiple[1] < 2 * levels.r_multiple[2] THEN None
        ELSE levels

\* the candles of every series, and SetupAt of every series and index,
\* evaluated once
CandleTable == [series \in BacktestSeries |-> BtCandles(series)]

ScaledTable == [series \in BacktestSeries |-> Scaled(CandleTable[series])]

SetupTable ==
    [series \in BacktestSeries |->
        [i \in lookahead..(Len(CandleTable[series]) - 1) |-> SetupAt(CandleTable[series], i)]]

\* Backtester.__init__
Backtester_init ==
    [trades |-> <<>>,
     equity_curve |-> <<>>,
     current_equity |-> PriceScale * 100000,
     max_equity |-> PriceScale * 100000,
     max_drawdown |-> 0,
     max_drawdown_pct |-> <<0, 1>>]

\* Then(value), with `value' computed once
Bind(value, Then(_)) == CHOOSE then \in {Then(bound) : bound \in {value}} : TRUE

\* run_backtest, the end of one pass: the trade record, the equity point and
\* the drawdown of a trade the risk engine let through
RecordTrade(self, candles, i, symbol, t, setup, trade_details, outcome) ==
    LET trade_dt == TimestampOrNow(At(candles, i).timestamp, t)
        trade_record == [timestamp |-> trade_dt,
                         time_index |-> i,
                         symbol |-> symbol,
                         direction |-> setup.direction,
                         entry |-> setup.entry,
                         stop_loss |-> setup.stop,
                         take_profit |-> setup.tp,
                         r_multiple |-> setup.r_multiple,
                         position_size |-> trade_details.position_size,
                         dollar_risk |-> trade_details.dollar_risk,
                         risk_percent |-> trade_details.risk_percent,
                         result |-> outcome.pnl,
                         r_achieved |-> outcome.r_achieved,
                         status |-> IF outcome.pnl > 0 THEN "win" ELSE "loss"]
        current_equity == self.current_equity + outcome.pnl
        equity_ts == IF i + 1 < Len(candles) /\ At(candles, i + 1).timestamp > 0
                     THEN FromTimestamp(At(candles, i + 1).timestamp)
                     ELSE trade_dt
        max_equity == Max(self.max_equity, current_equity)
        drawdown == max_equity - current_equity
        deeper == FracGreater(drawdown, max_equity,
                              self.max_drawdown_pct[1], self.max_drawdown_pct[2])
    IN  [self EXCEPT
            !.trades = Append(self.trades, trade_record),
            !.current_equity = current_equity,
            !.equity_curve = Append(self.equity_curve,
                                    [timestamp |-> equity_ts, time |-> i,
                                     equity |-> current_equity]),
            !.max_equity = max_equity,
            !.max_drawdown = IF deeper THEN drawdown ELSE self.max_drawdown,
            !.max_drawdown_pct = IF deeper THEN Frac(drawdown, max_equity)
                                 ELSE self.max_drawdown_pct]

\* run_backtest, one pass of `for i in range(lookahead, len(candles))'
ScanStep(self, series, i, symbol, t) ==
    Bind(SetupTable[series][i], LAMBDA setup :
        IF setup = None THEN self
        ELSE Bind(validate_trade_setup(setup.entry, setup.stop, setup.direction, symbol, t),
                  LAMBDA risk :
                      IF ~risk.valid THEN self
                      ELSE Bind(_simulate_trade_outcome(setup.entry, setup.stop, setup.tp,
                                                        risk.trade_details.r_multiple,
                                                        risk.trade_details.position_size,
                                                        setup.direction,
                                                        ScaledTable[series], i + 1),
                                LAMBDA outcome :
                                    RecordTrade(self, CandleTable[series], i, symbol, t,
                                                setup, risk.trade_details, outcome))))

RECURSIVE Scan(_, _, _, _, _)
Scan(self, series, i, symbol, t) ==
    IF i >= Len(CandleTable[series]) THEN self
    ELSE Bind(ScanStep(self, series, i, symbol, t),
              LAMBDA next : Scan(next, series, i + 1, symbol, t))

\* the longest run of trades with the given status
RECURSIVE Streak(_, _, _, _)
Streak(trades, status, current, longest) ==
    IF trades = <<>> THEN longest
    ELSE IF Head(trades).status = status
         THEN Streak(Tail(trades), status, current + 1, Max(longest, current + 1))
    ELSE Streak(Tail(trades), status, 0, longest)

\* the first equity point with the highest equity: max(equity_curve, key=...)
PeakPoint(equity_curve) ==
    LET top == MaxOf([k \in 1..Len(equity_curve) |-> equity_curve[k].equity])
        k0 == CHOOSE k \in 1..Len(equity_curve) :
                  /\ equity_curve[k].equity = top
                  /\ \A j \in 1..(k - 1) : equity_curve[j].equity # top
    IN  equity_curve[k0]

ZeroMetrics(self, max_drawdown, max_drawdown_pct) ==
    [total_trades |-> 0,
     win_rate |-> <<0, 1>>,
     avg_r |-> <<0, 1>>,
     net_pnl |-> 0,
     max_drawdown |-> max_drawdown,
     max_drawdown_pct |-> max_drawdown_pct,
     longest_win_streak |-> 0,
     longest_loss_streak |-> 0,
     final_equity |-> self.current_equity,
     equity_curve |-> self.equity_curve,
     profit_factor |-> <<0, 1>>,
     avg_win |-> <<0, 1>>,
     avg_loss |-> <<0, 1>>,
     avg_win_r |-> <<0, 1>>,
     avg_loss_r |-> <<0, 1>>,
     gross_profit |-> 0,
     gross_loss |-> 0,
     equity_curve_summary |-> [min_equity |-> self.current_equity,
                               max_equity |-> self.current_equity,
                               peak_equity_date |-> None,
                               peak_equity_value |-> self.current_equity]]

TradeMetrics(self) ==
    LET total_trades == Len(self.trades)
        winning_trades == SelectSeq(self.trades, LAMBDA tr : tr.status = "win")
        losing_trades == SelectSeq(self.trades, LAMBDA tr : tr.status = "loss")
        results(ts) == Sum([k \in 1..Len(ts) |-> ts[k].result])
        r_sum(ts) == Sum([k \in 1..Len(ts) |-> ts[k].r_achieved])
        gross_profit == results(winning_trades)
        gross_loss == Abs(results(losing_trades))
        equity_values == [k \in 1..Len(self.equity_curve) |-> self.equity_curve[k].equity]
    IN  [total_trades |-> total_trades,
         win_rate |-> Frac(100 * Len(winning_trades), total_trades),
         avg_r |-> Frac(r_sum(self.trades), total_trades),
         net_pnl |-> results(self.trades),
         max_drawdown |-> self.max_drawdown,
         max_drawdown_pct |-> self.max_drawdown_pct,
         longest_win_streak |-> Streak(self.trades, "win", 0, 0),
         longest_loss_streak |-> Streak(self.trades, "loss", 0, 0),
         final_equity |-> self.current_equity,
         equity_curve |-> self.equity_curve,
         profit_factor |-> IF gross_loss > 0 THEN Frac(gross_profit, gross_loss)
                           ELSE <<gross_profit, 1>>,
         avg_win |-> IF winning_trades # <<>> THEN Frac(gross_profit, Len(winning_trades))
                     ELSE <<0, 1>>,
         avg_loss |-> IF losing_trades # <<>> THEN Frac(gross_loss, Len(losing_trades))
                      ELSE <<0, 1>>,
         avg_win_r |-> IF winning_trades # <<>>
                       THEN Frac(r_sum(winning_trades), Len(winning_trades)) ELSE <<0, 1>>,
         avg_loss_r |-> IF losing_trades # <<>>
                        THEN Frac(Abs(r_sum(losing_trades)), Len(losing_trades)) ELSE <<0, 1>>,
         gross_profit |-> gross_profit,
         gross_loss |-> gross_loss,
         equity_curve_summary |-> [min_equity |-> MinOf(equity_values),
                                   max_equity |-> MaxOf(equity_values),
                                   peak_equity_date |-> PeakPoint(self.equity_curve).timestamp,
                                   peak_equity_value |-> MaxOf(equity_values)]]

_calculate_metrics_StaleDrawdown(self) ==
    IF self.trades = <<>>
    THEN ZeroMetrics(self, self.max_drawdown, self.max_drawdown_pct)
    ELSE TradeMetrics(self)

\* Backtester._calculate_metrics
_calculate_metrics(self) ==
    IF self.trades = <<>>
    THEN ZeroMetrics(self, 0, <<0, 1>>)
    ELSE TradeMetrics(self)

StartEquity == {10000}

\* the object after run_backtest(candles, symbol, start_equity): the fields
\* the run sets anew, then the scan
AfterRun(self, series, symbol, start_equity, t) ==
    LET candles == CandleTable[series]
        first_timestamp == IF candles # <<>> THEN candles[1].timestamp ELSE 0
        first_dt == TimestampOrNow(first_timestamp, t)
        started == [self EXCEPT
                       !.current_equity = PriceScale * start_equity,
                       !.max_equity = PriceScale * start_equity,
                       !.trades = <<>>,
                       !.equity_curve = <<[timestamp |-> first_dt, time |-> 0,
                                           equity |-> PriceScale * start_equity]>>]
    IN  Bind(started, LAMBDA self_ : Scan(self_, series, lookahead, symbol, t))

\* the metrics run_backtest returns, and the trade records it leaves in
\* self.trades for the caller
BacktestResult(self, series, symbol, start_equity, t) ==
    [metrics |-> _calculate_metrics(self),
     backtest_metadata |-> [start_time |-> WallClock(t),
                            end_time |-> WallClock(t),
                            duration_seconds |-> 0,
                            symbol |-> symbol,
                            start_equity |-> PriceScale * start_equity,
                            candles_analyzed |-> Len(CandleTable[series])],
     trades |-> self.trades]

InitBacktest ==
    /\ ArbiterIdle
    /\ call = None
    /\ ret = None
    /\ backtester = Backtester_init
    /\ ComponentsIdle

\* Backtester(config_path): a fresh simulator object
NewBacktester ==
    /\ backtester' = Backtester_init
    /\ UNCHANGED <<arbiter, call, ret, components>>

\* Backtester.run_backtest at wall-clock reading t
run_backtest(series, symbol, start_equity, t) ==
    /\ call' = [candles |-> series, symbol |-> symbol, start_equity |-> start_equity]
    /\ backtester' = AfterRun(backtester, series, symbol, start_equity, t)
    /\ ret' = ReturnedValue(BacktestResult(backtester', series, symbol, start_equity, t))
    /\ UNCHANGED <<arbiter, components>>

NextBacktest ==
    \/ NewBacktester
    \/ \E series \in BacktestSeries, start_equity \in StartEquity, t \in Clock :
           run_backtest(series, "NQ", start_equity, t)

SpecBacktest == InitBacktest /\ [][NextBacktest]_vars

(* C16: running the backtest again with the same candle array and          *)
(* configuration, on the same simulator object or on a fresh one, yields   *)
(* the same trade records, equity curve and metrics as the run before:     *)
(* nothing in the result depends on the wall clock or on an earlier run.   *)
C16_SameRunSameResult ==
    [][(call # None /\ call' = call) => ret' = ret]_vars

(* C17: a backtest that produces no trades, also on an empty or too short  *)
(* candle array, returns with total_trades = 0, win_rate = 0.0, every      *)
(* other metric at zero and final_equity equal to start_equity.            *)
C17_ZeroTrades ==
    (ret # None /\ ret.value.trades = <<>>) =>
        LET m == ret.value.metrics
            start_equity == PriceScale * call.start_equity
        IN  /\ ret.status = "returned"
            /\ m.total_trades = 0
            /\ m.win_rate = <<0, 1>>
            /\ m.avg_r = <<0, 1>>
            /\ m.net_pnl = 0
            /\ m.max_drawdown = 0
            /\ m.max_drawdown_pct = <<0, 1>>
            /\ m.longest_win_streak = 0
            /\ m.longest_loss_streak = 0
            /\ m.profit_factor = <<0, 1>>
            /\ m.avg_win = <<0, 1>> /\ m.avg_loss = <<0, 1>>
            /\ m.avg_win_r = <<0, 1>> /\ m.avg_loss_r = <<0, 1>>
            /\ m.gross_profit = 0 /\ m.gross_loss = 0
            /\ m.final_equity = start_equity
            /\ m.equity_curve_summary.min_equity = start_equity
            /\ m.equity_curve_summary.max_equity = start_equity
            /\ Len(m.equity_curve) = 1
            /\ m.equity_curve[1].equity = start_equity

\* no candles at all, on a simulator that recorded a drawdown in a run before
C17_Witness ==
    /\ ret # None
    /\ ret.value.trades = <<>>
    /\ call.candles.tail = <<>>
    /\ backtester.max_drawdown > 0

\* the candle that decides the trade recorded at index i of the series: the
\* first of the 100 candles after it that touches the stop or the target
Touching(series, tr, j) ==
    LET candle == At(ScaledTable[series], j)
    IN  \/ StopHit(tr.direction, candle, tr.stop_loss)
        \/ TargetHit(tr.direction, candle, tr.take_profit)

DecidingCandles(series, tr) ==
    {j \in (tr.time_index + 1)..(Min(tr.time_index + 100, Len(CandleTable[series]) - 1)) :
        /\ Touching(series, tr, j)
        /\ \A h \in (tr.time_index + 1)..(j - 1) : ~Touching(series, tr, h)}

TradeDecidedAsClaimed(series, tr) ==
    /\ DecidingCandles(series, tr) = {} => tr.result = 0
    /\ \A j \in DecidingCandles(series, tr) :
           IF StopHit(tr.direction, At(ScaledTable[series], j), tr.stop_loss)
           THEN tr.result = -(Abs(tr.entry - tr.stop_loss) * tr.position_size)
           ELSE tr.result = Abs(tr.take_profit - tr.entry) * tr.position_size

TradeRecordedAsClaimed(tr) ==
    /\ tr.result < 0 => tr.r_achieved = -100
    /\ tr.result = 0 => tr.r_achieved = 0
    /\ tr.result > 0 => tr.r_achieved * tr.r_multiple[2] = 100 * tr.r_multiple[1]

(* C18: every trade of a run is decided by the first of the (at most 100)  *)
(* candles after its trigger that touches the stop or the target; the stop *)
(* gives -|entry - stop| * size at -1R, the target |target - entry| * size *)
(* at the R-multiple at which the target was placed, no touch 0 and 0 R.   *)
C18_OutcomeAtPlacedR ==
    ret # None =>
        \A k \in 1..Len(ret.value.trades) :
            /\ TradeDecidedAsClaimed(call.candles, ret.value.trades[k])
            /\ TradeRecordedAsClaimed(ret.value.trades[k])

\* the deepest drawdown of an equity curve, as <<dollars, <<dd, peak>>>>
DrawdownAt(equity_curve, k) ==
    LET peak == MaxOf([j \in 1..k |-> equity_curve[j].equity])
    IN  [dollars |-> peak - equity_curve[k].equity, peak |-> peak]

DeepestDrawdown(equity_curve) ==
    LET deeper(a, b) == FracGreater(a.dollars, a.peak, b.dollars, b.peak)
        k0 == CHOOSE k \in 1..Len(equity_curve) :
                  /\ \A j \in 1..Len(equity_curve) :
                         ~deeper(DrawdownAt(equity_curve, j), DrawdownAt(equity_curve, k))
                  /\ \A j \in 1..(k - 1) :
                         deeper(DrawdownAt(equity_curve, k), DrawdownAt(equity_curve, j))
    IN  DrawdownAt(equity_curve, k0)

(* C20: after run_backtest returns, max_drawdown_pct is the maximum over   *)
(* the equity points of that run of (running peak - equity) / running peak *)
(* (the peak starting at start_equity; 0 when equity never fell below its  *)
(* peak), and max_drawdown is the dollar drawdown at that point.           *)
C20_DrawdownOfThisRun ==
    ret # None =>
        LET m == ret.value.metrics
            deepest == DeepestDrawdown(m.equity_curve)
        IN  /\ m.max_drawdown_pct = Frac(deepest.dollars, deepest.peak)
            /\ m.max_drawdown = deepest.dollars

----------------------------------------------------------------------------
(* CVDCalculator: the cumulative volume delta of a candle series *)

\* CVDCalculator.__init__
CVDCalculator_init == [cvd_values |-> <<>>, current_cvd |-> 0]

\* `for delta in volume_deltas: cumulative += delta; cvd_values.append(...)'
RECURSIVE Accumulate(_, _)
Accumulate(volume_deltas, cumulative) ==
    IF volume_deltas = <<>> THEN <<>>
    ELSE <<cumulative + Head(volume_deltas)>>
             \o Accumulate(Tail(volume_deltas), cumulative + Head(volume_deltas))

CVDCalculator_calculate_cvd_Carry(self, candles) ==
    LET cvd_values == Accumulate(_calculate_volume_deltas(candles), self.current_cvd)
    IN  [cvd_values |-> cvd_values,
         current_cvd |-> IF cvd_values # <<>> THEN cvd_values[Len(cvd_values)]
                         ELSE self.current_cvd]

\* CVDCalculator.calculate_cvd(candles): the object after the call, whose
\* cvd_values are the list the call returns
CVDCalculator_calculate_cvd(self, candles) ==
    LET cvd_values == Accumulate(_calculate_volume_deltas(candles), 0)
    IN  [cvd_values |-> cvd_values,
         current_cvd |-> IF cvd_values # <<>> THEN cvd_values[Len(cvd_values)]
                         ELSE self.current_cvd]

\* the series handed to calculate_cvd: up to CvdLen candles, rising, falling
\* or doji, after a short rising prefix or none
CvdLen == 3
CvdBodies == {-1, 0, 1}

CvdSeries ==
    {[prefix |-> p, trend |-> 1, tail |-> tl] :
        p \in {0, 2}, tl \in UNION {[1..n -> CvdBodies] : n \in 0..CvdLen}}

InitCvd ==
    /\ ArbiterIdle
    /\ call = None
    /\ ret = None
    /\ backtester = None
    /\ calculator = CVDCalculator_init
    /\ tracker = None
    /\ system = None

\* CVDCalculator(): a fresh calculator
NewCalculator ==
    /\ calculator' = CVDCalculator_init
    /\ UNCHANGED <<arbiter, call, ret, backtester, tracker, system>>

\* calculator.calculate_cvd(candles)
CalculateCvd(series) ==
    /\ call' = series
    /\ calculator' = CVDCalculator_calculate_cvd(calculator, Candles(series))
    /\ ret' = ReturnedValue(calculator'.cvd_values)
    /\ UNCHANGED <<arbiter, backtester, tracker, system>>

NextCvd ==
    \/ NewCalculator
    \/ \E series \in CvdSeries : CalculateCvd(series)

SpecCvd == InitCvd /\ [][NextCvd]_vars

\* buy volume minus sell volume of one candle, by the 52/48 rule
DeltaOf(candle) ==
    LET share == IF candle.close > candle.open THEN 52
                 ELSE IF candle.close < candle.open THEN 48 ELSE 50
        buy_vol == (candle.volume * share) \div 100
    IN  buy_vol - (candle.volume - buy_vol)

CumulativeOf(series, cvd_values) ==
    LET candles == Candles(series)
    IN  /\ Len(cvd_values) = Len(candles)
        /\ \A k \in 1..Len(candles) :
               cvd_values[k] = (IF k = 1 THEN 0 ELSE cvd_values[k - 1]) + DeltaOf(candles[k])

(* C21: calculate_cvd returns one value per candle, each the previous      *)
(* value (0 before the first) plus that candle's delta, and the result     *)
(* depends on the series alone: the same series gives the same list after  *)
(* any earlier computation on the same or a fresh calculator.              *)
C21_CumulativeAndPure ==
    [][/\ ret' # None => CumulativeOf(call', ret'.value)
       /\ (call # None /\ call' = call) => ret' = ret]_vars

\* a call has returned the running sum of a two-candle series, which the
\* calculator now holds in place of what it held before
C21_Witness ==
    /\ ret # None
    /\ Len(ret.value) = 2
    /\ ret.value[2] # 0
    /\ calculator.cvd_values = ret.value
    /\ calculator.current_cvd = ret.value[2]

----------------------------------------------------------------------------
(* ajr/gap_tracker.py and ajr/ajr_strategy.py: the gap strategy.           *)
(* Candle prices are in ticks of the instrument; the prices of a signal    *)
(* are in half ticks, so that 1.5 and 2.5 stop distances stay whole.       *)

min_gap_size_ticks == 10
InversionWindow == 5
max_history == 200
DefaultGapAge == 100

\* Gap.__init__ (inversion_candle_idx 0 stands for None: it is only read
\* for its truth value)
Gap(gap_id, instrument, gap_high, gap_low, candle_idx, direction) ==
    [gap_id |-> gap_id,
     instrument |-> instrument,
     gap_high |-> gap_high,
     gap_low |-> gap_low,
     candle_idx |-> candle_idx,
     direction |-> direction,
     filled |-> FALSE,
     inverted |-> FALSE,
     inversion_candle_idx |-> 0]

age_in_candles(gap, current_idx) == current_idx - gap.candle_idx

is_filled(gap, candle) ==
    IF gap.direction = "UP" THEN candle.low <= gap.gap_high
    ELSE candle.high >= gap.gap_low

\* Gap.is_inverted: close through the far side of the gap
is_inverted(gap, candle) ==
    IF gap.direction = "UP" THEN candle.close < gap.gap_low
    ELSE candle.close > gap.gap_high

\* GapTracker.__init__
GapTracker_init(max_gap_age_candles) ==
    [min_gap_size_ticks |-> min_gap_size_ticks,
     max_gap_age_candles |-> max_gap_age_candles,
     gaps |-> [i \in Instruments |-> <<>>],
     candle_count |-> [i \in Instruments |-> 0]]

_detect_gap_Unsized(self, current_candle, instrument, candle_idx) ==
    LET open_price == current_candle.open
        prev_close == current_candle.prev_close
        gap_id == <<instrument, "GAP", candle_idx>>
    IN  IF open_price >= prev_close
        THEN Gap(gap_id, instrument, open_price, prev_close, candle_idx, "UP")
        ELSE Gap(gap_id, instrument, prev_close, open_price, candle_idx, "DOWN")

\* GapTracker._detect_gap: the gap the candle opens from its prev_close,
\* None below the minimum size (sizes in ticks)
_detect_gap(self, current_candle, instrument, candle_idx) ==
    LET open_price == current_candle.open
        prev_close == current_candle.prev_close
        gap_id == <<instrument, "GAP", candle_idx>>
    IN  IF Abs(open_price - prev_close) < self.min_gap_size_ticks THEN None
        ELSE IF open_price > prev_close
        THEN Gap(gap_id, instrument, open_price, prev_close, candle_idx, "UP")
        ELSE IF open_price < prev_close
        THEN Gap(gap_id, instrument, prev_close, open_price, candle_idx, "DOWN")
        ELSE None

\* GapTracker._update_gaps, the loop body for a gap that has not expired
UpdateGap(gap, candle, current_idx) ==
    IF gap.inverted THEN gap
    ELSE [gap EXCEPT
             !.filled = gap.filled \/ is_filled(gap, candle),
             !.inverted = is_inverted(gap, candle),
             !.inversion_candle_idx = IF is_inverted(gap, candle) THEN current_idx ELSE 0]

\* GapTracker._update_gaps: the gaps of the instrument afterwards
_update_gaps(self, candle, instrument, current_idx) ==
    LET kept == SelectSeq(self.gaps[instrument],
                          LAMBDA gap : age_in_candles(gap, current_idx) <= self.max_gap_age_candles)
    IN  [k \in 1..Len(kept) |-> UpdateGap(kept[k], candle, current_idx)]

\* GapTracker.process_candle: the tracker afterwards
GapTracker_process_candle(self, candle, instrument) ==
    LET current_idx == self.candle_count[instrument] + 1
        updated == _update_gaps(self, candle, instrument, current_idx)
        new_gap == IF current_idx > 1 THEN _detect_gap(self, candle, instrument, current_idx)
                   ELSE None
    IN  [self EXCEPT
            !.candle_count[instrument] = current_idx,
            !.gaps[instrument] = IF new_gap = None THEN updated ELSE Append(updated, new_gap)]

get_recent_inversion_Window6(self, instrument) ==
    LET current_idx == self.candle_count[instrument]
        gaps == self.gaps[instrument]
        recent == {k \in 1..Len(gaps) :
                      /\ gaps[k].inverted
                      /\ gaps[k].inversion_candle_idx # 0
                      /\ current_idx - gaps[k].inversion_candle_idx <= InversionWindow + 1}
    IN  IF recent = {} THEN None
        ELSE gaps[CHOOSE k \in recent : \A j \in recent : j <= k]

\* GapTracker.get_recent_inversion: the last gap in the list that was
\* inverted at most 5 candles ago
get_recent_inversion(self, instrument) ==
    LET current_idx == self.candle_count[instrument]
        gaps == self.gaps[instrument]
        recent == {k \in 1..Len(gaps) :
                      /\ gaps[k].inverted
                      /\ gaps[k].inversion_candle_idx # 0
                      /\ current_idx - gaps[k].inversion_candle_idx <= InversionWindow}
    IN  IF recent = {} THEN None
        ELSE gaps[CHOOSE k \in recent : \A j \in recent : j <= k]

\* GapTracker.clear_instrument
clear_instrument(self, instrument) ==
    [self EXCEPT !.gaps[instrument] = <<>>, !.candle_count[instrument] = 0]

\* AJRStrategy.__init__
AJRStrategy_init(max_gap_age_candles) ==
    [enabled |-> TRUE,
     gap_tracker |-> GapTracker_init(max_gap_age_candles),
     candle_history |-> [i \in Instruments |-> <<>>]]

\* AJRStrategy._add_to_history: the history of the instrument afterwards
_add_to_history(self, candle, instrument) ==
    LastN(Append(self.candle_history[instrument], candle), max_history)

Lows(candles) == [k \in 1..Len(candles) |-> candles[k].low]
Highs(candles) == [k \in 1..Len(candles) |-> candles[k].high]

\* AJRStrategy._has_recent_opposite_probe (the swing is None on fewer than
\* 3 candles: _find_swing_low, _find_swing_high)
_has_recent_opposite_probe(self, instrument, direction) ==
    LET history == self.candle_history[instrument]
        n == Len(history)
        mid_point == n \div 2
        swing_period == IF n >= 20 THEN Slice(history, n - 20, n - 10)
                        ELSE Slice(history, 0, mid_point)
        recent_candles == IF n >= 20 THEN Slice(history, n - 10, n - 1)
                          ELSE Slice(history, mid_point, n - 1)
    IN  IF n < 6 THEN FALSE
        ELSE IF Len(swing_period) < 3 THEN FALSE
        ELSE IF direction = "BUY"
        THEN \E k \in 1..Len(recent_candles) :
                 recent_candles[k].low < MinOf(Lows(swing_period))
        ELSE \E k \in 1..Len(recent_candles) :
                 recent_candles[k].high > MaxOf(Highs(swing_period))

\* AJRStrategy._simple_stop: 20 ticks beyond the candle
_simple_stop(candle, direction) ==
    IF direction = "BUY" THEN candle.low - 20 ELSE candle.high + 20

\* AJRStrategy._calculate_stop: 5 ticks beyond the swing of the last 20
\* candles, the simple stop on fewer than 10 candles
_calculate_stop(self, current_candle, instrument, direction) ==
    LET history == self.candle_history[instrument]
    IN  IF Len(history) < 10 THEN _simple_stop(current_candle, direction)
        ELSE IF direction = "BUY" THEN MinOf(Lows(LastN(history, 20))) - 5
        ELSE MaxOf(Highs(LastN(history, 20))) + 5

\* AJRStrategy._generate_signal: the signal, None when it is filtered out
\* or TradeSignal raises
_generate_signal(self, gap, current_candle, instrument, t) ==
    LET direction == IF gap.direction = "UP" THEN "SELL" ELSE "BUY"
        entry_price == current_candle.close
        stop_price == _calculate_stop(self, current_candle, instrument, direction)
        stop_distance == Abs(entry_price - stop_price)
        side == IF direction = "BUY" THEN 1 ELSE -1
        signal == TradeSignal("AJR", instrument, direction, 2 * entry_price, 2 * stop_price,
                              <<2 * entry_price + side * 3 * stop_distance,
                                2 * entry_price + side * 5 * stop_distance>>,
                              DefaultMaxLossUsd, t, 0)
    IN  IF ~_has_recent_opposite_probe(self, instrument, direction) THEN None
        ELSE IF _validate(signal) # "OK" THEN None
        ELSE signal

\* AJRStrategy.process_candle: the strategy afterwards and what it returns
AJRStrategy_process_candle(self, candle, instrument, t) ==
    IF ~self.enabled THEN [self |-> self, signal |-> None]
    ELSE Bind([self EXCEPT
                  !.candle_history[instrument] = _add_to_history(self, candle, instrument),
                  !.gap_tracker = GapTracker_process_candle(self.gap_tracker, candle, instrument)],
              LAMBDA after :
                  Bind(get_recent_inversion(after.gap_tracker, instrument),
                       LAMBDA inverted_gap :
                           [self |-> after,
                            signal |-> IF inverted_gap = None THEN None
                                       ELSE _generate_signal(after, inverted_gap, candle,
                                                             instrument, t)]))

\* AJRStrategy.reset(instrument)
AJRStrategy_reset(self, instrument) ==
    [self EXCEPT !.gap_tracker = clear_instrument(self.gap_tracker, instrument),
                 !.candle_history[instrument] = <<>>]

\* the candles fed to the strategy: each opens `gap' ticks from the close
\* before it, closes `body' ticks from its open and reaches `wick' ticks
\* beyond both; the callers set prev_close to the close before it (absent
\* on the first)
MaxCandles == 9
ShortCandles == 6
OtherCandles == 1
GapAge == 3
CandleKinds ==
    {[gap |-> 10, body |-> 1, wick |-> 1],
     [gap |-> -10, body |-> -2, wick |-> 1],
     [gap |-> 0, body |-> 0, wick |-> 20]}

Fed(history, kind) ==
    LET first == history = <<>>
        open_price == IF first THEN BasePrice ELSE history[Len(history)].close + kind.gap
        close == open_price + kind.body
    IN  [open |-> open_price,
         high |-> Max(open_price, close) + kind.wick,
         low |-> Min(open_price, close) - kind.wick,
         close |-> close,
         prev_close |-> IF first THEN open_price ELSE history[Len(history)].close]

\* the instrument under examination is fed up to MaxCandles candles of any
\* kind (up to ShortCandles when gaps expire after GapAge candles, which is
\* long enough to see a gap expire), the other one up to OtherCandles
\* candles that stay at their open
CandleCap(instrument) ==
    IF instrument # "NQ" THEN OtherCandles
    ELSE IF tracker.gap_tracker.max_gap_age_candles = GapAge THEN ShortCandles
    ELSE MaxCandles

KindsFor(instrument) ==
    IF instrument = "NQ" THEN CandleKinds ELSE {kind \in CandleKinds : kind.body = 0}

InitAjr ==
    /\ ArbiterIdle
    /\ call = None
    /\ ret = None
    /\ backtester = None
    /\ calculator = None
    /\ tracker \in {AJRStrategy_init(age) : age \in {GapAge, DefaultGapAge}}
    /\ system = None

\* strategy.process_candle(candle, instrument)
ProcessCandle(kind, instrument) ==
    /\ tracker.gap_tracker.candle_count[instrument] < CandleCap(instrument)
    /\ \E candle \in {Fed(tracker.candle_history[instrument], kind)} :
       \E after \in {AJRStrategy_process_candle(tracker, candle, instrument, now)} :
           /\ call' = [candle |-> candle, instrument |-> instrument]
           /\ tracker' = after.self
           /\ ret' = ReturnedValue(after.signal)
    /\ UNCHANGED <<arbiter, backtester, calculator, system>>

\* strategy.reset(instrument), after which no call is under examination
ResetStrategy(instrument) ==
    /\ tracker.gap_tracker.candle_count[instrument] > 0
    /\ tracker' = AJRStrategy_reset(tracker, instrument)
    /\ call' = None
    /\ ret' = None
    /\ UNCHANGED <<arbiter, backtester, calculator, system>>

NextAjr ==
    \/ \E instrument \in Instruments :
           \E kind \in KindsFor(instrument) : ProcessCandle(kind, instrument)
    \/ \E instrument \in Instruments : ResetStrategy(instrument)

SpecAjr == InitAjr /\ [][NextAjr]_vars

GapsOf(strategy, instrument) == strategy.gap_tracker.gaps[instrument]

\* low edge below high edge, and UP exactly when the forming candle opened
\* above the close of the candle before it
WellFormedGap(strategy, instrument, gap) ==
    LET history == strategy.candle_history[instrument]
    IN  /\ gap.gap_low < gap.gap_high
        /\ gap.direction \in {"UP", "DOWN"}
        /\ gap.candle_idx \in 2..Len(history)
        /\ gap.direction = "UP" <=>
               history[gap.candle_idx].open > history[gap.candle_idx - 1].close

SameGapLater(gap, later) ==
    /\ later.instrument = gap.instrument
    /\ later.gap_high = gap.gap_high
    /\ later.gap_low = gap.gap_low
    /\ later.candle_idx = gap.candle_idx
    /\ later.direction = gap.direction
    /\ gap.filled => later.filled
    /\ gap.inverted => later.inverted

(* C22: every tracked gap has low edge < high edge and direction UP        *)
(* exactly when its forming candle opened above the previous close; from   *)
(* one step to the next a tracked gap keeps its id, instrument, edges,     *)
(* formation index and direction, and its filled and inverted flags never  *)
(* go back from true to false.                                             *)
C22_GapsWellFormedAndFixed ==
    /\ [](\A instrument \in Instruments :
             \A gap \in Range(GapsOf(tracker, instrument)) :
                 WellFormedGap(tracker, instrument, gap))
    /\ [][\A instrument \in Instruments :
              \A later \in Range(GapsOf(tracker', instrument)) :
                  \A gap \in Range(GapsOf(tracker, instrument)) :
                      gap.gap_id = later.gap_id => SameGapLater(gap, later)]_vars

\* an UP gap that was filled and inverted is tracked next to a DOWN gap
\* that is neither
C22_Witness ==
    \E instrument \in Instruments :
        \E k, j \in 1..Len(GapsOf(tracker, instrument)) :
            /\ GapsOf(tracker, instrument)[k].direction = "UP"
            /\ GapsOf(tracker, instrument)[k].filled
            /\ GapsOf(tracker, instrument)[k].inverted
            /\ GapsOf(tracker, instrument)[j].direction = "DOWN"
            /\ ~GapsOf(tracker, instrument)[j].filled
            /\ ~GapsOf(tracker, instrument)[j].inverted

\* the gap was inverted by the candle at its inversion index, at most
\* InversionWindow candles before the current one
InvertedRecently(strategy, instrument, gap) ==
    LET history == strategy.candle_history[instrument]
        current_idx == strategy.gap_tracker.candle_count[instrument]
    IN  /\ gap.inverted
        /\ gap.inversion_candle_idx \in 1..Len(history)
        /\ current_idx - gap.inversion_candle_idx \in 0..InversionWindow
        /\ IF gap.direction = "UP"
           THEN history[gap.inversion_candle_idx].close < gap.gap_low
           ELSE history[gap.inversion_candle_idx].close > gap.gap_high

(* C23: process_candle returns a signal for an instrument only when some   *)
(* tracked gap of that instrument was inverted (close below the low edge   *)
(* of an UP gap, above the high edge of a DOWN gap) on the current candle  *)
(* or within the 5 candles before it, and the signal is SELL for an UP     *)
(* gap and BUY for a DOWN gap.                                             *)
C23_SignalFromRecentInversion ==
    (ret # None /\ ret.value # None) =>
        /\ ret.value.instrument = call.instrument
        /\ \E k \in 1..Len(GapsOf(tracker, call.instrument)) :
               LET gap == GapsOf(tracker, call.instrument)[k]
               IN  /\ InvertedRecently(tracker, call.instrument, gap)
                   /\ ret.value.direction = IF gap.direction = "UP" THEN "SELL" ELSE "BUY"

\* a SELL signal returned five candles after the only inversion
C23_Witness ==
    /\ ret # None
    /\ ret.value # None
    /\ ret.value.direction = "SELL"
    /\ \A k \in 1..Len(GapsOf(tracker, call.instrument)) :
           LET gap == GapsOf(tracker, call.instrument)[k]
           IN  gap.inverted =>
                   tracker.gap_tracker.candle_count[call.instrument] - gap.inversion_candle_idx
                       = InversionWindow

(***************************************************************************)
(* dual_strategy_main.py: DualStrategySystem.start, _monitor_symbol and    *)
(* main.  start creates one monitoring task per symbol and waits for them  *)
(* in asyncio.gather; a monitoring task is suspended only in its           *)
(* `await asyncio.sleep(5)`, so one pass of its loop is one step.  An      *)
(* exception of a pass is an input: the calls of l.151-159 are not inside  *)
(* any try block.                                                          *)
(***************************************************************************)

MaxChecks == 6

PassOutcomes == {"quiet", "processed", "raised"}

\* a monitoring task suspended in the sleep of its loop
MonitorTask == [at |-> "sleep", check_count |-> 0, processed |-> 0]

\* the system once start() has created the tasks and awaits gather
DualStrategySystem_start(monitored) ==
    [running |-> TRUE, main |-> "gather",
     tasks |-> [symbol \in monitored |-> MonitorTask]]

\* one pass of the loop of _monitor_symbol after its sleep returns
_monitor_symbol(self, symbol, outcome) ==
    LET task == self.tasks[symbol]
    IN  IF ~self.running
        THEN [self EXCEPT !.tasks[symbol].at = "returned"]
        ELSE IF outcome = "raised"
        THEN [self EXCEPT !.tasks[symbol].at = "failed",
                          !.tasks[symbol].check_count = task.check_count + 1]
        ELSE [self EXCEPT !.tasks[symbol].check_count = task.check_count + 1,
                          !.tasks[symbol].processed =
                              task.processed + (IF outcome = "processed" THEN 1 ELSE 0)]

\* stop(): the flag every monitoring loop tests
DualStrategySystem_stop(self) == [self EXCEPT !.running = FALSE]

\* asyncio.run closing its loop: every task still pending is cancelled
CancelPending(self) ==
    [self EXCEPT !.tasks =
        [symbol \in DOMAIN self.tasks |->
            IF self.tasks[symbol].at = "sleep"
            THEN [self.tasks[symbol] EXCEPT !.at = "cancelled"]
            ELSE self.tasks[symbol]]]

\* gather re-raises the first exception of a task; it is no
\* KeyboardInterrupt, so it leaves start(), runs main's finally and
\* leaves asyncio.run
main_raised(self) ==
    [CancelPending(DualStrategySystem_stop(self)) EXCEPT !.main = "raised"]

InitSystem ==
    /\ ArbiterIdle
    /\ call = None
    /\ ret = None
    /\ backtester = None
    /\ calculator = None
    /\ tracker = None
    /\ system = DualStrategySystem_start(Instruments)

MonitorPass(symbol, outcome) ==
    /\ system.main = "gather"
    /\ system.tasks[symbol].at = "sleep"
    /\ system.tasks[symbol].check_count < MaxChecks
    /\ system' = _monitor_symbol(system, symbol, outcome)
    /\ UNCHANGED <<arbiter, call, ret, backtester, calculator, tracker>>

GatherRaises ==
    /\ system.main = "gather"
    /\ \E symbol \in DOMAIN system.tasks : system.tasks[symbol].at = "failed"
    /\ system' = main_raised(system)
    /\ UNCHANGED <<arbiter, call, ret, backtester, calculator, tracker>>

NextSystem ==
    \/ \E symbol \in Instruments :
           \E outcome \in PassOutcomes : MonitorPass(symbol, outcome)
    \/ GatherRaises

SpecSystem == InitSystem /\ [][NextSystem]_vars

\* C24: when the monitoring task of one instrument has raised, the system
\* keeps running and no monitoring task of another instrument is cancelled
C24_OthersKeepRunning ==
    (\E symbol \in Instruments : system.tasks[symbol].at = "failed") =>
        /\ system.running
        /\ \A other \in Instruments : system.tasks[other].at # "cancelled"

(***************************************************************************)
(* shared/execution_arbiter.py with 'enabled': false in the arbiter's      *)
(* configuration: process_signal counts the signal and goes straight to    *)
(* _execute_signal (l.93-95); no lock is taken, so a call is one step.     *)
(* The last three digits of the microsecond in a signal id are an input    *)
(* of the construction.                                                    *)
(***************************************************************************)

\* values of microsecond % 1000 that two constructions can see
IdCounters == {0, 1}

\* the signals a detector can construct at time t, for each counter value
CountedSignals(t) ==
    {s \in UNION {{TradeSignal(st, i, sh.direction, sh.entry_price,
                                 sh.stop_price, sh.take_profit,
                                 DefaultMaxLossUsd, t, c) :
                        i \in symbols, sh \in Shapes(st), c \in IdCounters} :
                    st \in strategies} :
        _validate(s) = "OK"}

\* both instruments and both detectors, arbiter disabled, mid-session
InitBypass ==
    /\ now = 36000
    /\ enabled = FALSE
    /\ allow_merging = FALSE
    /\ symbols = Instruments
    /\ strategies = Strategies
    /\ InitCommon
    /\ call = None
    /\ ret = None
    /\ backtester = None
    /\ ComponentsIdle

\* a detector constructs a signal and submits it
CallCounted(t) == \E signal \in CountedSignals(now) : Enter(t, signal)

NextBypass ==
    \/ Tick
    \/ \E t \in Tasks : CallCounted(t)
    \/ \E t \in Tasks : Resubmit(t)
    \/ \E i \in Instruments : close_position(i)
    \/ update_daily_loss(daily_loss_limit)
    \/ reset_daily

SpecBypass == InitBypass /\ [][NextBypass]_vars

\* C25: distinct signals have distinct signal_ids, so whatever a step puts
\* in the pending-signal map under the id of an entry is that entry's own
\* signal
C25_SignalIdsDistinct ==
    [][\A k \in DOMAIN pending_signals :
           \A j \in DOMAIN pending_signals' :
               pending_signals'[j].signal_id = pending_signals[k].signal_id
                   => pending_signals'[j] = pending_signals[k]]_vars

\* C29: with the arbiter disabled, a call of process_signal leaves every
\* recorded open position as it was and accepts a signal only for an
\* instrument without one
C29_BypassKeepsPosition ==
    [][(~enabled /\ total_signals' = total_signals + 1) =>
           \A i \in Instruments :
               open_positions[i] # None =>
                   /\ open_positions'[i] = open_positions[i]
                   /\ ~(result'.accepted /\ result'.details.signal.instrument = i)]_vars

----------------------------------------------------------------------------
(* C26: when the pending rules can apply *)

\* the outcomes only _handle_pending_signal produces: its rejections, a
\* merge (or the exception of one) and the deletion of a pending entry
ConflictHandling(t) ==
    /\ Deciding(t)
    /\ \/ result'.status = "raised"
       \/ result'.reason \in {"Signal already pending",
                              "Conflicting signal, keeping first",
                              "Conflicting signal, pending has priority"}
       \/ merged_signals' # merged_signals
       \/ \E k \in DOMAIN pending_signals :
              ~DictHas(pending_signals', pending_signals[k].signal_id)

\* every signal a step places in the pending map is the signal of the open
\* position the same step records for its instrument
PlacedWithPosition ==
    \A j \in DOMAIN pending_signals' :
        ~IsPending(pending_signals'[j]) =>
            LET position == open_positions'[pending_signals'[j].instrument]
            IN  position # None /\ position.signal = pending_signals'[j]

\* an open position is removed by close_position alone
RemovedByClose ==
    \A i \in Instruments :
        (open_positions[i] # None /\ open_positions'[i] = None) =>
            UNCHANGED <<pending_signals, accepted_signals, rejected_signals,
                        merged_signals, pc, arg, result>>

\* the pending rules apply only with no open position and a pending signal
\* of the instrument created fewer than 5 seconds ago
HandledInWindow ==
    \A t \in Tasks :
        ConflictHandling(t) =>
            /\ open_positions[arg[t].instrument] = None
            /\ InWindow(arg[t].instrument) # {}

PositionRejected(t) ==
    /\ ~result'.accepted
    /\ result'.reason = "Position already open"
    /\ open_positions[arg[t].instrument] # None
    /\ UNCHANGED <<open_positions, pending_signals>>

RiskRejected(t) ==
    /\ ~result'.accepted
    /\ result'.reason = "Risk validation failed"
    /\ ~RiskValid(arg[t])
    /\ UNCHANGED <<open_positions, pending_signals>>

PlainAccept(t) ==
    /\ result'.accepted
    /\ result'.details.signal = arg[t]
    /\ open_positions'[arg[t].instrument].signal = arg[t]
    /\ IsPendingNext(arg[t])
    /\ merged_signals' = merged_signals
    /\ \A k \in DOMAIN pending_signals :
           DictHas(pending_signals', pending_signals[k].signal_id)

OutsidePendingCase(t) ==
    /\ Deciding(t)
    /\ ~(open_positions[arg[t].instrument] = None /\ InWindow(arg[t].instrument) # {})

\* C26 as stated: a pending signal is placed together with an open position,
\* positions go away by close_position alone, the pending rules apply only
\* with the position closed and the pending signal younger than 5 seconds,
\* and in every other case the new signal is rejected for an existing
\* position or accepted with no conflict handling
C26_PendingNeedsCloseClaim ==
    [][/\ PlacedWithPosition
       /\ RemovedByClose
       /\ HandledInWindow
       /\ \A t \in Tasks :
              OutsidePendingCase(t) => PositionRejected(t) \/ PlainAccept(t)]_vars

\* C26 amended: the same, where in every other case the new signal is
\* rejected by the risk validation, rejected for an existing position or
\* accepted with no conflict handling
C26_PendingNeedsClose ==
    [][/\ PlacedWithPosition
       /\ RemovedByClose
       /\ HandledInWindow
       /\ \A t \in Tasks :
              OutsidePendingCase(t) =>
                  RiskRejected(t) \/ PositionRejected(t) \/ PlainAccept(t)]_vars

\* at 10:00:04 a second signal was merged with a pending one of the last
\* five seconds after the first position was closed
C26_Witness ==
    /\ merged_signals = 1
    /\ accepted_signals = 2
    /\ result.accepted
    /\ open_positions["NQ"] # None
    /\ open_positions["NQ"].signal = result.details.signal
    /\ now = 36000 + PendingWindowSeconds - 1
    /\ result.details.signal.timestamp = now

----------------------------------------------------------------------------
(* C27: the risk recorded and returned for an accepted signal *)

\* the details are the risk sizer's values for the signal they stand for
SizerValuesOf(signal, position_size, risk_details) ==
    /\ risk_details = calculate_position_size(signal)
    /\ position_size = calculate_position_size(signal).position_size

\* C27: the size, dollar and percent risk and R-multiples returned for an
\* accepted signal and recorded with every open position are the risk
\* sizer's values for the signal executed, and the risk of every open
\* position is at most 110% of the per-trade cap
C27_RiskOfExecutedSignal ==
    /\ result.accepted =>
           LET sized == calculate_position_size(result.details.signal)
           IN  /\ result.details.position_size = sized.position_size
               /\ result.details.risk_usd = sized.actual_risk_usd
               /\ result.details.risk_pct = sized.actual_risk_pct
               /\ result.details.r_multiples = sized.r_multiples
    /\ \A i \in Instruments :
           open_positions[i] # None =>
               /\ SizerValuesOf(open_positions[i].signal, open_positions[i].position_size, open_positions[i].risk_details)
               /\ 10 * open_positions[i].risk_details.actual_risk_usd <= 11 * max_risk_usd

----------------------------------------------------------------------------
(* C30: the arbiter's statistics *)

\* C30: every call of process_signal ends by returning a result, and once
\* no call is in flight total_signals = accepted + rejected and
\* merged <= accepted
C30_CountersAddUp ==
    /\ result.status # "raised"
    /\ (\A t \in Tasks : pc[t] = "idle") =>
           /\ total_signals = accepted_signals + rejected_signals
           /\ merged_signals <= accepted_signals

(***************************************************************************)
(* dual_strategy_main.py: DualStrategySystem._check_aafr on the candle     *)
(* buffer of a symbol, the phase detector enabled.  Prices of the levels   *)
(* are in units of 1/PriceScale as in the backtest.                        *)
(***************************************************************************)

\* ICCDetector.calculate_trade_levels, the same statements as the
\* backtester's copy
calculate_trade_levels(icc_structure, candles) ==
    _calculate_trade_levels(icc_structure, candles)

\* _check_aafr: None, or the signal it returns (a ValueError of the
\* construction is caught and gives None)
_check_aafr(symbol, candles, t, counter) ==
    LET icc_structure == detect_icc_structure(candles, TRUE)
    IN  IF icc_structure = None \/ ~icc_structure.complete THEN None
        ELSE IF ~validate_full_setup(icc_structure, candles) THEN None
        ELSE Bind(calculate_trade_levels(icc_structure, candles),
                  LAMBDA levels :
                      IF levels.entry = 0 \/ levels.stop = 0 THEN None
                      ELSE Bind(TradeSignal("AAFR", symbol,
                                            icc_structure.indication.direction,
                                            levels.entry, levels.stop, <<levels.tp>>,
                                            DefaultMaxLossUsd, t, counter),
                                LAMBDA signal :
                                    IF _validate(signal) # "OK" THEN None ELSE signal))

\* the candle buffers of a monitored symbol
BufferArgs ==
    [prefix : {PrefixLen},
     trend : {0, 1},
     tail : [1..TailLen -> TailBodies],
     symbol : Instruments]

InitLive ==
    /\ ArbiterIdle
    /\ call \in BufferArgs
    /\ ret = None
    /\ backtester = None
    /\ ComponentsIdle

CheckAafr ==
    /\ ret = None
    /\ \E counter \in IdCounters :
           ret' = ReturnedValue(_check_aafr(call.symbol, Candles(call), now, counter))
    /\ UNCHANGED <<arbiter, call, backtester, components>>

NextLive == CheckAafr

SpecLive == InitLive /\ [][NextLive]_vars

\* the structure of the buffer is complete and passes validate_full_setup
ValidSetup(candles) ==
    LET icc_structure == detect_icc_structure(candles, TRUE)
    IN  /\ icc_structure # None
        /\ icc_structure.complete
        /\ validate_full_setup(icc_structure, candles)

\* C28: for a buffer whose structure is complete and passes full-setup
\* validation, _check_aafr returns a signal: BUY for a LONG structure, SELL
\* for a SHORT one, entry at the continuation close, with the derived stop
\* and target
C28_LiveSignalForValidSetup ==
    (ret # None /\ ValidSetup(Candles(call))) =>
        LET icc_structure == detect_icc_structure(Candles(call), TRUE)
            levels == calculate_trade_levels(icc_structure, Candles(call))
        IN  /\ ret.value # None
            /\ ret.value.strategy_id = "AAFR"
            /\ ret.value.instrument = call.symbol
            /\ ret.value.direction =
                   (IF icc_structure.indication.direction = "LONG" THEN "BUY" ELSE "SELL")
            /\ ret.value.entry_price = PriceScale * icc_structure.continuation.candle.close
            /\ ret.value.stop_price = levels.stop
            /\ ret.value.take_profit = <<levels.tp>>

====
